---- MODULE Spec2Model ----
(***************************************************************************)
(* Git Conflict Anticipator (CodeSenior/git-anticipator).                  *)
(*                                                                         *)
(* The model follows the TypeScript sources:                               *)
(*   conflictScanner/detectConflicts.ts     change sets and the classifier*)
(*   conflictScanner/checkConflictForDocument.ts   one scan of a document  *)
(*   utils/utils.ts                         branch resolver, watcher copy  *)
(*   extension.ts                           event handlers                 *)
(*                                                                         *)
(* Every git subprocess is a call of executeGitCommand, which returns the  *)
(* trimmed stdout or null.  A git answer is modelled as the value the      *)
(* caller sees: NULL for null, "" for an empty stdout.                     *)
(***************************************************************************)
EXTENDS Naturals, Sequences, FiniteSets, TLC

VARIABLES
  pc,        \* position of the driver of the pure-function specifications
  cand,      \* git answers about one candidate path (classifier input)
  verdict,   \* what hasRealConflict returned for cand
  detectorVerdict,  \* what hasRealConflicts of conflictDetector.ts returned for cand
  rin,       \* branch resolver input: the name and the two branch listings
  rout,      \* what normalizeBranchName returned for rin
  rout2,     \* what normalizeBranchName returned for rout, same listings
  world,     \* the repository, the workspace and the failing git commands
  conflictedFilesSet,  \* types/types.ts:13, written by the scanner
  watcherSet,          \* conflictedFilesSet of watcher.ts (utils.ts:99)
  last,      \* the call of checkConflictForDocument of the one-scan specification
  again,     \* the same call made a second time, nothing having changed
  answers,   \* the answers git gives to one call of detectPotentialConflicts
             \* or of detectConflictFiles
  changes,   \* what that call returned for answers
  invocation,  \* what one call of executeGitCommand finds: cwd, .git, the subprocess
  returned,    \* what executeGitCommand did for invocation
  texts,     \* the three file contents and the document analyzeFileConflicts reads
  marks,     \* the line numbers it returned and the ranges built from them
  targetBranch,    \* extension.ts:45, kept equal to the provider's targetBranch
  configTarget,    \* the gitConflictAnticipator.targetBranch setting
  autoRefresh,     \* config.get('autoRefresh') of the configuration read at activation
  visibleEditors,  \* documents shown by vscode.window.visibleTextEditors
  queue,     \* events VS Code has fired and the extension host has not yet run
  running,   \* the scan the extension host is in, if any
  scanNo,    \* number of scans extension.ts has started
  completed, \* the most recent scan of a.ts by the scanner that reached the detection
  rerunOf,   \* the scan during which the last handled overlapping trigger arrived
  rerunCount, \* number of scans started so far by triggers that arrived during rerunOf
  isExtensionEnabled,  \* extension.ts:15
  configEnabled,       \* the gitConflictAnticipator.enabled setting
  providerFiles,       \* ConflictFilesProvider.conflictedFiles, what the tree view lists
  detectorSet,         \* conflictedFilesSet of conflictDetector.ts:15
  onDisk,    \* whether the watched file exists in the file system
  awaiting,  \* watcher handlers whose openTextDocument has not settled yet
  deleteReported,  \* whether onDidDelete ran since the last change or create handler
                   \* started, how many handlers were awaiting when it ran, and
                   \* whether the file has existed at any time since it ran
  conflictedFiles,  \* ConflictFilesProvider.conflictedFiles as the list it is
  updates,   \* the calls of updateConflictedFiles so far: argument, warning shown
  connectivityCheckInterval,  \* part_002:7, null or the handle of setInterval
  activeIntervals,  \* the intervals set and not cleared
  timersCreated,    \* number of setInterval calls so far
  isOnline,         \* part_002:5
  checksInFlight,   \* dns lookups of checkInternetConnectivity not yet settled
  warnedRecently    \* Date.now() - lastConnectivityWarning < 30000

classifyVars == <<cand, verdict, detectorVerdict>>
resolveVars == <<rin, rout, rout2>>
scanVars == <<world, conflictedFilesSet, watcherSet, last, again>>
diffVars == <<answers, changes>>
commandVars == <<invocation, returned>>
locateVars == <<texts, marks>>
watchVars == <<onDisk, awaiting, deleteReported>>
providerVars == <<conflictedFiles, updates>>
monitorVars == <<connectivityCheckInterval, activeIntervals, timersCreated, isOnline,
                 checksInFlight, warnedRecently>>
hostVars == <<targetBranch, configTarget, autoRefresh, visibleEditors,
              queue, running, scanNo, completed, rerunOf, rerunCount,
              isExtensionEnabled, configEnabled, providerFiles, detectorSet>>
vars == <<pc, cand, verdict, detectorVerdict, rin, rout, rout2,
          world, conflictedFilesSet, watcherSet, last, again,
          answers, changes, invocation, returned, texts, marks,
          targetBranch, configTarget, autoRefresh, visibleEditors,
          queue, running, scanNo, completed, rerunOf, rerunCount,
          isExtensionEnabled, configEnabled, providerFiles, detectorSet,
          onDisk, awaiting, deleteReported, conflictedFiles, updates,
          connectivityCheckInterval, activeIntervals, timersCreated, isOnline,
          checksInFlight, warnedRecently>>

(***************************************************************************)
(* Git answers                                                             *)
(***************************************************************************)

\* executeGitCommand's failure value (command.ts: return null).
NULL == "<null>"

\* Blob texts as `git show` prints them, trimmed; "" is an empty blob.
Contents == {"", "1", "2", "3"}

\* A `git show` answer: the text, or null when the command failed.
ShowAnswers == Contents \cup {NULL}

\* Lines a legacy `git merge-tree <base> <a> <b>` run can print.
ConflictMarkers == {"<<<<<<<", "=======", ">>>>>>>"}

MergeLines == ConflictMarkers \cup {"changed in both a.ts", "@@ -1 +1 @@"}

\* Bound on the number of lines of a merge-tree output.
MaxMergeLines == 2

\* A failed list-valued command (null), as a value no output equals.
NULLOUT == <<NULL>>

SeqsUpTo(S, n) == UNION {[1..k -> S] : k \in 0..n}

\* merge-tree answers: null, the empty output <<>>, or some lines.
MergeAnswers == SeqsUpTo(MergeLines, MaxMergeLines) \cup {NULLOUT}

\* JavaScript truthiness of a string|null answer holding lines.
Truthy(out) == out # NULLOUT /\ out # <<>>

\* String.prototype.includes over the lines of an output, for a token that
\* is one of the model's whole lines.
includes(out, token) == \E i \in 1..Len(out) : out[i] = token

(***************************************************************************)
(* ConflictClassifier: hasRealConflict                                     *)
(***************************************************************************)

\* The answers hasRealConflict can get for one path: the three
\* `cat-file -e` probes (true iff the answer is not null), the three
\* `git show` answers and the merge-tree answer.
Candidates ==
  [eB : BOOLEAN, eC : BOOLEAN, eT : BOOLEAN,
   sB : ShowAnswers, sC : ShowAnswers, sT : ShowAnswers,
   mt : MergeAnswers]

\* Lines 405-407: the text where the path exists, '' where it does not.
baseContent(a)    == IF a.eB THEN a.sB ELSE ""
currentContent(a) == IF a.eC THEN a.sC ELSE ""
targetContent(a)  == IF a.eT THEN a.sT ELSE ""

\* Line 394.
isCreateDelete_never(a) == FALSE

isCreateDelete(a) == ~a.eB /\ (a.eC # a.eT)

\* Line 400 with the test applied only to a path that base lacks too.
existsNowhere_unlessAtBase(a) == ~a.eB /\ ~a.eC /\ ~a.eT

\* Line 400.
existsNowhere(a) == ~a.eC /\ ~a.eT

\* Line 410.
sameContent_never(a) == FALSE

sameContent(a) == currentContent(a) = targetContent(a)

\* Line 416.
onlyTargetChanged(a) ==
  baseContent(a) = currentContent(a) /\ baseContent(a) # targetContent(a)

\* Line 421.
onlyCurrentChanged_never(a) == FALSE

onlyCurrentChanged(a) ==
  baseContent(a) = targetContent(a) /\ baseContent(a) # currentContent(a)

\* Line 429.
hasConflictMarkers(out) ==
  includes(out, "<<<<<<<") \/ includes(out, ">>>>>>>") \/ includes(out, "=======")

\* The commits whose blob `git show` is run on (lines 405-407).
ShownAt(a) ==
  {c \in {"base", "current", "target"} :
     \/ c = "base" /\ a.eB
     \/ c = "current" /\ a.eC
     \/ c = "target" /\ a.eT}

Verdict(k, shown, probed) == [kind |-> k, shown |-> shown, probed |-> probed]

\* Lines 426-438 with the probe's result ignored when it shows no marker.
probeVerdict_trusting(a) ==
  IF Truthy(a.mt) /\ hasConflictMarkers(a.mt)
  THEN Verdict("ContentConflict", ShownAt(a), TRUE)
  ELSE Verdict("NoConflict", ShownAt(a), TRUE)

\* Lines 426-438: the merge-tree probe; with markers or without, and when
\* the probe failed, the answer is `true`.
probeVerdict(a) ==
  IF Truthy(a.mt) /\ hasConflictMarkers(a.mt)
  THEN Verdict("ContentConflict", ShownAt(a), TRUE)
  ELSE Verdict("ContentConflict", ShownAt(a), TRUE)

\* hasRealConflict, lines 384-445.  kind is what the boolean stands for at
\* each return; shown and probed record the git commands run on the way.
hasRealConflict(a) ==
  IF isCreateDelete(a) THEN Verdict("CreateDeleteConflict", {}, FALSE)
  ELSE IF existsNowhere(a) THEN Verdict("NoConflict", {}, FALSE)
  ELSE IF sameContent(a) THEN Verdict("NoConflict", ShownAt(a), FALSE)
  ELSE IF onlyTargetChanged(a) THEN Verdict("NoConflict", ShownAt(a), FALSE)
  ELSE IF onlyCurrentChanged(a) THEN Verdict("NoConflict", ShownAt(a), FALSE)
  ELSE probeVerdict(a)

\* The boolean hasRealConflict returns.
isConflict(v) == v.kind # "NoConflict"

NoVerdict == Verdict("none", {}, FALSE)

(***************************************************************************)
(* The classifier of conflictDetector.ts: hasRealConflicts                 *)
(***************************************************************************)

\* line.includes(filePath) (conflictDetector.ts:136), the candidate being
\* a.ts.
mentionsPath(line) == line = "changed in both a.ts"

\* lines.some(line => line.includes(filePath)) (lines 135-136).
fileInOutput(out) == \E i \in 1..Len(out) : mentionsPath(out[i])

\* hasRealConflicts, conflictDetector.ts:111-145: the boolean it returns
\* for the answers a; it runs the merge-tree command only.
hasRealConflicts(a) ==
  IF ~Truthy(a.mt) THEN FALSE
  ELSE IF hasConflictMarkers(a.mt) THEN TRUE
  ELSE fileInOutput(a.mt)

(***************************************************************************)
(* BranchResolver: normalizeBranchName (utils/utils.ts)                    *)
(*                                                                         *)
(* A branch name is the sequence of its '/'-separated segments, so that    *)
(* `origin/${name}` and endsWith(`/${name}`) are computed, not assumed.    *)
(***************************************************************************)

\* The null normalizeBranchName returns; no branch name is empty.
NullRef == << >>

LocalNames == {<<"main">>, <<"dev">>}

RemoteNames ==
  {<<"origin", "dev">>, <<"origin", "main">>,
   <<"upstream", "main">>, <<"upstream", "origin", "main">>}

\* Names a user can configure as target branch.
QueryNames == LocalNames \cup RemoteNames \cup {<<"gone">>}

\* git prints branch listings sorted by refname.
Rank(n) ==
  CASE n = <<"dev">> -> 1
    [] n = <<"main">> -> 2
    [] n = <<"origin", "dev">> -> 3
    [] n = <<"origin", "main">> -> 4
    [] n = <<"upstream", "main">> -> 5
    [] n = <<"upstream", "origin", "main">> -> 6
    [] OTHER -> 7

RECURSIVE SortedSeq(_)
SortedSeq(S) ==
  IF S = {} THEN << >>
  ELSE LET m == CHOOSE x \in S : \A y \in S : Rank(x) <= Rank(y)
       IN <<m>> \o SortedSeq(S \ {m})

\* Answers of `git branch --format=...` and `git branch -r --format=...`,
\* split into lines: null, or the sorted names (<<>> is the empty stdout).
NullListing == << <<NULL>> >>

LocalListings == {SortedSeq(S) : S \in SUBSET LocalNames} \cup {NullListing}
RemoteListings == {SortedSeq(S) : S \in SUBSET RemoteNames} \cup {NullListing}

\* `if (localBranches)`: neither null nor the empty stdout.
TruthyListing(list) == list # NullListing /\ list # << >>

\* Array.prototype.includes on a listing.
listIncludes(list, n) == \E i \in 1..Len(list) : list[i] = n

\* `origin/${branchName}` (line 34).
originBranch(n) == <<"origin">> \o n

\* b.endsWith(`/${branchName}`) (line 41): the suffix starts after a '/',
\* so b has more segments than n and its last Len(n) segments are n.
endsWithSlash(b, n) ==
  /\ Len(b) > Len(n)
  /\ SubSeq(b, Len(b) - Len(n) + 1, Len(b)) = n

\* Array.prototype.find with the predicate of line 41: the first match.
findEndsWith(list, n) ==
  LET hits == {i \in 1..Len(list) : endsWithSlash(list[i], n)}
  IN IF hits = {} THEN NullRef
     ELSE list[CHOOSE i \in hits : \A j \in hits : i <= j]

\* Lines 28-46: the lookup among the remote branches.
normalizeRemote(n, remotes) ==
  IF ~TruthyListing(remotes) THEN NullRef
  ELSE IF listIncludes(remotes, originBranch(n)) THEN originBranch(n)
  ELSE findEndsWith(remotes, n)

\* normalizeBranchName, utils/utils.ts lines 15-50.
normalizeBranchName(n, locals, remotes) ==
  IF TruthyListing(locals) /\ listIncludes(locals, n) THEN n
  ELSE normalizeRemote(n, remotes)

(***************************************************************************)
(* Specification of the classifier alone: any answers, then one call.      *)
(***************************************************************************)

(***************************************************************************)
(* Change sets: detectLocalRemoteConflicts, detectPotentialConflicts,      *)
(* detectConflictFiles (conflictScanner/detectConflicts.ts)                *)
(*                                                                         *)
(* g is the record of git answers of one scan, one field per command the   *)
(* code runs.  A `diff --name-only` answer is the sequence of its lines    *)
(* (<<>> for an empty stdout) or NULLOUT; a `rev-parse`, `merge-base` or   *)
(* `cat-file -e` answer is a string or NULL.  The lists the functions      *)
(* return are only read through includes() and length, so they are sets.   *)
(***************************************************************************)

\* Repository-relative paths of the tracked files.
Paths == {"a.ts", "b.ts"}

\* f.trim() on a line of a diff (lines 276, 283, 157, 161).
trim(f) == IF f = " a.ts" THEN "a.ts" ELSE f

\* f.startsWith('#') (lines 277, 284).
startsWithHash(f) == f \in {"#notes.md"}

\* `!x` on a string|null answer: null and '' are falsy.
TruthyStr(x) == x # NULL /\ x # ""

Lines(out) == {out[i] : i \in 1..Len(out)}

\* targetBranch.replace(/^origin\//, '') (line 198).
stripOrigin(t) == IF Len(t) > 1 /\ t[1] = "origin" THEN Tail(t) ELSE t

\* Lines 156-162: split, trim, drop the empty lines.
localRemoteFiles(out) == {trim(f) : f \in {x \in Lines(out) : trim(x) # ""}}

\* detectLocalRemoteConflicts, lines 111-177.
detectLocalRemoteConflicts(g) ==
  IF ~TruthyStr(g.lrRevLocal) \/ ~TruthyStr(g.lrRevRemote) THEN {}
  ELSE IF g.lrRevLocal = g.lrRevRemote THEN {}
  ELSE IF ~TruthyStr(g.lrMergeBase) THEN {}
  ELSE IF ~Truthy(g.lrDiffLocal) /\ ~Truthy(g.lrDiffRemote) THEN {}
  ELSE IF ~Truthy(g.lrDiffLocal) THEN {}
  ELSE IF ~Truthy(g.lrDiffRemote) THEN {}
  ELSE localRemoteFiles(g.lrDiffLocal) \cap localRemoteFiles(g.lrDiffRemote)

\* Lines 272-285: split, trim, drop empty lines, '#' lines and directories.
changedFiles(out, g) ==
  {trim(f) : f \in {x \in Lines(out) :
      trim(x) # "" /\ ~startsWithHash(trim(x)) /\ trim(x) \notin g.dirs}}

\* Lines 221-247: the three approaches.  Each later approach runs when the
\* earlier one left either answer falsy, and then overwrites both answers.
ladder(g) ==
  LET retry2 == ~Truthy(g.d1c) \/ ~Truthy(g.d1t)
      c2 == IF retry2 THEN g.d2c ELSE g.d1c
      t2 == IF retry2 THEN g.d2t ELSE g.d1t
      retry3 == ~Truthy(c2) \/ ~Truthy(t2)
      shas == retry3 /\ TruthyStr(g.shaB) /\ TruthyStr(g.shaC) /\ TruthyStr(g.shaT)
  IN [cur |-> IF shas THEN g.d3c ELSE c2,
      tgt |-> IF shas THEN g.d3t ELSE t2,
      attempts |-> IF shas THEN 3 ELSE IF retry2 THEN 2 ELSE 1]

\* detectPotentialConflicts, lines 188-300.
detectPotentialConflicts(g, cur, tgt) ==
  IF cur = stripOrigin(tgt) THEN detectLocalRemoteConflicts(g)
  ELSE IF g.exBase = NULL \/ g.exCur = NULL \/ g.exTgt = NULL THEN {}
  ELSE LET l == ladder(g)
       IN IF l.cur = NULLOUT /\ l.tgt = NULLOUT THEN {}
          ELSE IF ~Truthy(l.cur) THEN {}
          ELSE IF ~Truthy(l.tgt) THEN {}
          ELSE changedFiles(l.cur, g) \cap changedFiles(l.tgt, g)

\* The answers hasRealConflict gets for path f during this scan.
CandOf(g, f) ==
  [eB |-> g.file[f].eB, eC |-> g.file[f].eC, eT |-> g.file[f].eT,
   sB |-> g.file[f].sB, sC |-> g.file[f].sC, sT |-> g.file[f].sT,
   mt |-> g.mt]

\* Lines 318, 353-354: split and drop the blank lines.
nonBlank(out) == {f \in Lines(out) : trim(f) # ""}

\* The paths detectConflictFiles hands to hasRealConflict: every line of
\* the three-dot diff (lines 315-318), or, when that command failed, the
\* intersection of the two-dot diffs (lines 334-365), whose target side is
\* read from targetModified even when only the alternative command answered.
comparedFiles(g) ==
  IF g.m1 # NULLOUT THEN nonBlank(g.m1)
  ELSE IF ~Truthy(g.m2c) THEN {}
  ELSE IF ~Truthy(g.m2t) /\ ~Truthy(g.m2alt) THEN {}
  ELSE nonBlank(g.m2c) \cap (IF Truthy(g.m2t) THEN nonBlank(g.m2t) ELSE {})

\* detectConflictFiles, lines 312-371.
detectConflictFiles(g) ==
  {f \in comparedFiles(g) : isConflict(hasRealConflict(CandOf(g, f)))}

(***************************************************************************)
(* One scan: checkConflictForDocument                                      *)
(* (conflictScanner/checkConflictForDocument.ts; utils/utils.ts 430-575    *)
(* is the watcher's copy of the same text)                                 *)
(***************************************************************************)

\* A workspace-relative path (vscode.workspace.asRelativePath, line 49) as
\* the sequence of its '/'-separated segments.
segments(p) ==
  CASE p = ".vscode/settings.json" -> <<".vscode", "settings.json">>
    [] p = ".git/config" -> <<".git", "config">>
    [] p = "node_modules/x.js" -> <<"node_modules", "x.js">>
    [] p = "src/node_modules/x.js" -> <<"src", "node_modules", "x.js">>
    [] OTHER -> <<p>>

\* relativePath.startsWith(dir + '/').
startsWithDirectory(p, dir) == Len(segments(p)) > 1 /\ segments(p)[1] = dir

\* Lines 53-55 with the test of '.vscode/' only.
isIgnoredPath_vscodeOnly(p) == startsWithDirectory(p, ".vscode")

\* relativePath.startsWith('.vscode/') || '.git/' || 'node_modules/'
\* (lines 53-55).
isIgnoredPath(p) ==
  \/ startsWithDirectory(p, ".vscode")
  \/ startsWithDirectory(p, ".git")
  \/ startsWithDirectory(p, "node_modules")

\* What one call did: where it returned, whether it called
\* clearDecorations, conflictedFilesSet.delete / .add, showErrorMessage and
\* executeCommand('gitConflictAnticipator.refreshTree'), and what the two
\* detection steps returned.
ScanResult(o, clr, del, add, err, tree, t, pot, conf) ==
  [outcome |-> o, clear |-> clr, delete |-> del, add |-> add, error |-> err,
   refreshTree |-> tree, resolved |-> t, potential |-> pot, conflictFiles |-> conf]

Returned(o, clr, del, err, t, pot, conf) ==
  ScanResult(o, clr, del, FALSE, err, FALSE, t, pot, conf)

\* Lines 133-163: the conflict is confirmed; the path is added only when a
\* visible editor shows the document.
confirmed(d, t, pot, conf) ==
  ScanResult("confirmed", FALSE, FALSE, d.visible, FALSE, TRUE, t, pot, conf)

\* Lines 103-131 with the first early return leaving the registry alone.
detect_keepStale(d, g, cur, t) ==
  LET pot == detectPotentialConflicts(g, cur, t)
  IN IF pot = {} THEN Returned("nopotential", TRUE, FALSE, FALSE, t, pot, {})
     ELSE IF d.path \notin pot
     THEN Returned("notpotential", TRUE, TRUE, FALSE, t, pot, {})
     ELSE LET conf == detectConflictFiles(g)
          IN IF d.path \notin conf
             THEN Returned("notconflict", TRUE, TRUE, FALSE, t, pot, conf)
             ELSE confirmed(d, t, pot, conf)

\* Lines 103-131, after the merge base is known.
detect(d, g, cur, t) ==
  LET pot == detectPotentialConflicts(g, cur, t)
  IN IF pot = {} THEN Returned("nopotential", TRUE, TRUE, FALSE, t, pot, {})
     ELSE IF d.path \notin pot
     THEN Returned("notpotential", TRUE, TRUE, FALSE, t, pot, {})
     ELSE LET conf == detectConflictFiles(g)
          IN IF d.path \notin conf
             THEN Returned("notconflict", TRUE, TRUE, FALSE, t, pot, conf)
             ELSE confirmed(d, t, pot, conf)

NoScan == ScanResult("none", FALSE, FALSE, FALSE, FALSE, FALSE, NullRef, {}, {})

(***************************************************************************)
(* The repository behind the answers                                       *)
(*                                                                         *)
(* HEAD is branch main at commit c1.  Every other ref points at c1 too     *)
(* (world.same) or at c2, whose merge base with c1 is c0.  Path b.ts holds *)
(* "1" at every commit; world.tri is the state of a.ts at base, current    *)
(* and target.  A command whose kind is in world.faults fails (exit code,  *)
(* timeout) and executeGitCommand answers null for it.                     *)
(***************************************************************************)

ABSENT == "<absent>"
FileStates == {ABSENT, "1", "2", "3"}

ContentNo(x) == CASE x = ABSENT -> 0 [] x = "1" -> 1 [] x = "2" -> 2 [] OTHER -> 3

\* Texts are only compared for equality, so one triple stands for all the
\* triples that differ from it by a renaming of the texts: the texts of a
\* triple appear in the order "1", "2", "3".
Canonical(tri) ==
  /\ ContentNo(tri[1]) <= 1
  /\ ContentNo(tri[2]) <= 1 + ContentNo(tri[1])
  /\ ContentNo(tri[3]) <= 1 + (IF ContentNo(tri[1]) >= ContentNo(tri[2])
                                THEN ContentNo(tri[1]) ELSE ContentNo(tri[2]))

Triples == {tri \in FileStates \X FileStates \X FileStates : Canonical(tri)}

\* What `git merge-tree base current target` prints when it runs.
MergeTruths == {<<"<<<<<<<", "=======", ">>>>>>>">>, <<"@@ -1 +1 @@">>}

FaultKinds == {"head", "merge-base", "rev-parse", "cat-file", "diff", "show", "merge-tree"}
MaxFaults == 1
FaultSets == {F \in SUBSET FaultKinds : Cardinality(F) <= MaxFaults}

HeadBranch == <<"main">>
AllLocals == SortedSeq(LocalNames)
OriginRemotes == SortedSeq({<<"origin", "dev">>, <<"origin", "main">>})

\* The document handed to checkConflictForDocument: its workspace-relative
\* path, uri.scheme, what fs.statSync finds at its fsPath, and whether a
\* visible editor shows it.
Document(p, scheme, stat, vis) == [path |-> p, scheme |-> scheme, stat |-> stat, visible |-> vis]

TargetNames == {<<"main">>, <<"dev">>, <<"gone">>}

World(d, target, hasGit, locals, remotes, same, tri, mt, faults) ==
  [doc |-> d, target |-> target, hasGit |-> hasGit, locals |-> locals,
   remotes |-> remotes, same |-> same, tri |-> tri, mt |-> mt, faults |-> faults]

\* The triples whose three states differ pairwise: hasRealConflict returns
\* before line 427 for every other triple, whatever commands fail, so what
\* merge-tree would print is varied for these only.
Diverging == {tri \in Triples : tri[1] # tri[2] /\ tri[2] # tri[3] /\ tri[1] # tri[3]}

\* The commits and trees of a world: <<same, tri, mt>>.  When every ref
\* points at c1 the three trees are one tree.
Histories ==
  ({FALSE} \X Diverging \X MergeTruths)
  \cup ({FALSE} \X (Triples \ Diverging) \X {<<"@@ -1 +1 @@">>})
  \cup ({TRUE} \X {<<ABSENT, ABSENT, ABSENT>>, <<"1", "1", "1">>} \X {<<"@@ -1 +1 @@">>})

\* Worlds in which the scan reaches git.
GitWorldsOf(histories) ==
  {World(Document(p, "file", "file", vis), target, TRUE, locals, remotes,
         h[1], h[2], h[3], F) :
     p \in Paths, vis \in BOOLEAN, target \in TargetNames,
     locals \in {AllLocals, NullListing}, remotes \in {OriginRemotes, NullListing},
     h \in histories, F \in FaultSets}

GitWorlds == GitWorldsOf(Histories)

\* Worlds in which the scan returns before it asks git anything: an
\* untitled document, a path that is gone or is a directory, a workspace
\* without .git, a path under an ignored directory.
EarlyWorld(d, hasGit) ==
  World(d, <<"dev">>, hasGit, AllLocals, OriginRemotes, FALSE, <<"1", "2", "3">>,
        <<"<<<<<<<", "=======", ">>>>>>>">>, {})

EarlyWorlds ==
  {EarlyWorld(Document("a.ts", "untitled", "file", TRUE), TRUE),
   EarlyWorld(Document("a.ts", "file", "missing", TRUE), TRUE),
   EarlyWorld(Document("a.ts", "file", "dir", TRUE), TRUE),
   EarlyWorld(Document("a.ts", "file", "file", TRUE), FALSE),
   EarlyWorld(Document(".vscode/settings.json", "file", "file", TRUE), TRUE)}

\* Documents under the directories the scan ignores, and two whose paths
\* only resemble them, in a repository whose branches conflict on a.ts.
SystemPaths ==
  {".vscode/settings.json", ".git/config", "node_modules/x.js", ".vscodeignore",
   "src/node_modules/x.js"}

SystemWorlds ==
  {EarlyWorld(Document(p, "file", "file", vis), TRUE) : p \in SystemPaths, vis \in BOOLEAN}

Worlds == GitWorlds \cup EarlyWorlds \cup SystemWorlds

fails(w, kind) == kind \in w.faults

\* `git rev-parse --abbrev-ref HEAD` (checkConflictForDocument.ts:62).
headAnswer(w) == IF fails(w, "head") THEN NullRef ELSE HeadBranch

sameSha(w, t) == t = HeadBranch \/ w.same
shaOfCurrent == "c1"
shaOfTarget(w, t) == IF sameSha(w, t) THEN "c1" ELSE "c2"
shaOfBase(w, t) == IF sameSha(w, t) THEN "c1" ELSE "c0"

\* State of path f at base, current and target when the target is t.
treeOf(w, t, f) ==
  IF f # "a.ts" THEN <<"1", "1", "1">>
  ELSE IF sameSha(w, t) THEN <<w.tri[2], w.tri[2], w.tri[2]>>
  ELSE w.tri

\* `git diff --name-only x..y`, i is the side (2 current, 3 target).
diffAnswer(w, t, i) ==
  IF fails(w, "diff") THEN NULLOUT
  ELSE IF treeOf(w, t, "a.ts")[1] # treeOf(w, t, "a.ts")[i] THEN <<"a.ts">>
  ELSE << >>

revAnswer(w, sha) == IF fails(w, "rev-parse") THEN NULL ELSE sha
refExists(w) == IF fails(w, "cat-file") THEN NULL ELSE ""
blobExists(w, x) == x # ABSENT /\ ~fails(w, "cat-file")
showAnswer(w, x) == IF x = ABSENT \/ fails(w, "show") THEN NULL ELSE x

fileAnswers(w, t, f) ==
  LET tr == treeOf(w, t, f)
  IN [eB |-> blobExists(w, tr[1]), eC |-> blobExists(w, tr[2]), eT |-> blobExists(w, tr[3]),
      sB |-> showAnswer(w, tr[1]), sC |-> showAnswer(w, tr[2]), sT |-> showAnswer(w, tr[3])]

\* The answers of every command of one scan whose target resolved to t.
Git(w, t) ==
  LET mb == IF fails(w, "merge-base") THEN NULL ELSE shaOfBase(w, t)
  IN [mergeBase |-> mb,
      lrRevLocal |-> revAnswer(w, shaOfCurrent),
      lrRevRemote |-> revAnswer(w, shaOfTarget(w, t)),
      lrMergeBase |-> mb,
      lrDiffLocal |-> diffAnswer(w, t, 2), lrDiffRemote |-> diffAnswer(w, t, 3),
      exBase |-> refExists(w), exCur |-> refExists(w), exTgt |-> refExists(w),
      d1c |-> diffAnswer(w, t, 2), d1t |-> diffAnswer(w, t, 3),
      d2c |-> diffAnswer(w, t, 2), d2t |-> diffAnswer(w, t, 3),
      shaB |-> revAnswer(w, shaOfBase(w, t)), shaC |-> revAnswer(w, shaOfCurrent),
      shaT |-> revAnswer(w, shaOfTarget(w, t)),
      d3c |-> diffAnswer(w, t, 2), d3t |-> diffAnswer(w, t, 3),
      m1 |-> diffAnswer(w, t, 3),
      m2c |-> diffAnswer(w, t, 2), m2t |-> diffAnswer(w, t, 3), m2alt |-> diffAnswer(w, t, 3),
      file |-> [f \in Paths |-> fileAnswers(w, t, f)],
      mt |-> IF fails(w, "merge-tree") THEN NULLOUT ELSE w.mt,
      dirs |-> {}]

\* checkConflictForDocument, lines 20-165.  d is the document, target the
\* branch name the caller passes, w the world that answers: w.hasGit is
\* the presence of <workspace>/.git and Git(w, t) are the answers of the
\* scan's commands once the target resolved to t.
checkConflictForDocument(d, target, w) ==
  IF d.scheme # "file" THEN Returned("skipped", FALSE, FALSE, FALSE, NullRef, {}, {})
  ELSE IF d.stat # "file" THEN Returned("skipped", FALSE, FALSE, FALSE, NullRef, {}, {})
  ELSE IF ~w.hasGit THEN Returned("nogit", TRUE, FALSE, FALSE, NullRef, {}, {})
  ELSE IF isIgnoredPath(d.path) THEN Returned("ignored", TRUE, FALSE, FALSE, NullRef, {}, {})
  ELSE IF headAnswer(w) = NullRef
  THEN Returned("nohead", TRUE, FALSE, FALSE, NullRef, {}, {})
  ELSE LET t == normalizeBranchName(target, w.locals, w.remotes)
       IN IF t = NullRef
          THEN Returned("refnotfound", TRUE, FALSE, TRUE, NullRef, {}, {})
          ELSE IF ~TruthyStr(Git(w, t).mergeBase)
          THEN Returned("nobase", TRUE, FALSE, FALSE, t, {}, {})
          ELSE detect(d, Git(w, t), headAnswer(w), t)

\* A call on the document and the target of world w.
scan(w) == checkConflictForDocument(w.doc, w.target, w)

\* The writes of lines 110-141 with add and delete swapped against the
\* membership already there.
scannerTypes_flipping(r, p, S) ==
  IF r.add \/ r.delete THEN (IF p \in S THEN S \ {p} ELSE S \cup {p}) ELSE S

\* Registry writes of conflictScanner/checkConflictForDocument.ts: add and
\* delete act on the set of types/types.ts, clearDecorations (imported from
\* watcher.ts, utils.ts:577-583) deletes from the watcher's set.
scannerTypes(r, p, S) == IF r.add THEN S \cup {p} ELSE IF r.delete THEN S \ {p} ELSE S

\* clearDecorations emptying the watcher's set instead of deleting the
\* document's path.
scannerWatcher_clearAll(r, p, S) == IF r.clear THEN {} ELSE S

scannerWatcher(r, p, S) == IF r.clear THEN S \ {p} ELSE S

\* Registry writes of the watcher's checkConflictForDocument
\* (utils.ts:430-575): add, delete and clearDecorations all act on the
\* watcher's set.
watcherWatcher(r, p, S) ==
  IF r.add THEN S \cup {p} ELSE IF r.delete \/ r.clear THEN S \ {p} ELSE S

\* A path another document's scan registered earlier.
OtherPath == "other.ts"

Call(r, by, types, watcher) == [r |-> r, by |-> by, before |-> [types |-> types, watcher |-> watcher]]
NoCall == Call(NoScan, "none", {}, {})

(***************************************************************************)
(* The command runner (command/command.ts)                                 *)
(*                                                                         *)
(* A string is the sequence of its characters; "x" stands for any          *)
(* character that is not white space.                                      *)
(***************************************************************************)

MaxStdout == 3

Chars == {"x", " ", "\n"}
Stdouts == SeqsUpTo(Chars, MaxStdout)

isWhiteSpace(c) == c \in {" ", "\n"}

RECURSIVE trimStart(_)
trimStart(s) == IF s # << >> /\ isWhiteSpace(Head(s)) THEN trimStart(Tail(s)) ELSE s

RECURSIVE trimEnd(_)
trimEnd(s) ==
  IF s # << >> /\ isWhiteSpace(s[Len(s)]) THEN trimEnd(SubSeq(s, 1, Len(s) - 1)) ELSE s

\* String.prototype.trim (line 27) with the end of the string left alone.
stringTrim_startOnly(s) == trimStart(s)

\* String.prototype.trim (line 27).
stringTrim(s) == trimEnd(trimStart(s))

\* How the subprocess ends: an exit status, or the 30 s timeout of line 24.
Outcomes == {"exit 0", "exit 1", "exit 128", "ETIMEDOUT"}

\* What one call finds: fs.existsSync(cwd), fs.existsSync(cwd/.git), how
\* the subprocess ends and what it wrote to stdout.
Invocation(cwdExists, hasGit, outcome, stdout) ==
  [cwdExists |-> cwdExists, hasGit |-> hasGit, outcome |-> outcome, stdout |-> stdout]

Invocations ==
  {Invocation(c, g, o, out) :
     c \in BOOLEAN, g \in BOOLEAN, o \in Outcomes, out \in Stdouts}

\* What a call did: the value it returned, or that an exception left it.
Return(value, threw) == [value |-> value, threw |-> threw]

NoInvocation == Invocation(TRUE, TRUE, "exit 0", << >>)
NoReturn == Return(NULLOUT, FALSE)

\* execSync (lines 21-27): the stdout of a subprocess that exits 0; it
\* throws for any other exit status and for a timeout.
execSync(inv) ==
  IF inv.outcome = "exit 0" THEN Return(inv.stdout, FALSE) ELSE Return(NULLOUT, TRUE)

\* executeGitCommand, lines 5-59.  The catch of lines 31-58 only logs and
\* returns null.
executeGitCommand(inv) ==
  IF ~inv.cwdExists THEN Return(NULLOUT, FALSE)
  ELSE IF ~inv.hasGit THEN Return(NULLOUT, FALSE)
  ELSE LET result == execSync(inv)
       IN IF result.threw THEN Return(NULLOUT, FALSE)
          ELSE Return(stringTrim(result.value), FALSE)

(***************************************************************************)
(* The line locator (conflictDetector.ts: analyzeFileConflicts and the     *)
(* decorations checkConflictForDocument builds from its result)            *)
(*                                                                         *)
(* A content is null (NULLOUT) or the sequence of its lines; the empty     *)
(* string is the one line "".  Line numbers are 0-based as in the code.    *)
(***************************************************************************)

MaxLines == 2

\* Lines of the file at base, current and target, and of the live
\* document; " b" is the line "b" after a blank.
BaseTexts == {"a", "c"}
CurrentTexts == {"a", "b"}
TargetTexts == {"b", "c"}
DocTexts == {"a", " b", ""}

EmptyContent == <<"">>

\* What `git show` can answer: null, the empty string, or some lines.
ContentsOver(T) ==
  (SeqsUpTo(T, MaxLines) \ {<< >>}) \cup {NULLOUT, EmptyContent}

\* document.getText().split('\n') (line 163): at least one line.
DocLines == SeqsUpTo(DocTexts, MaxLines) \ {<< >>}

Texts(base, current, target, doc) ==
  [base |-> base, current |-> current, target |-> target, doc |-> doc]

\* `!content`: null and '' are falsy (line 154).
TruthyContent(c) == c # NULLOUT /\ c # EmptyContent

\* String.prototype.trim on one line (line 179).
trimLine(l) == IF l = " b" THEN "b" ELSE l

\* lines[i] || '' (lines 171-173), i 0-based.
lineOr(lines, i) == IF i + 1 <= Len(lines) THEN lines[i + 1] ELSE ""

Max(a, b) == IF a >= b THEN a ELSE b
Min(a, b) == IF a <= b THEN a ELSE b

\* Line 176 with the comparison of the two branches left out.
isDivergence_eitherChanged(t, i) ==
  /\ lineOr(t.base, i) # lineOr(t.current, i)
  /\ lineOr(t.base, i) # lineOr(t.target, i)

\* Line 176.
isDivergence(t, i) ==
  /\ lineOr(t.base, i) # lineOr(t.current, i)
  /\ lineOr(t.base, i) # lineOr(t.target, i)
  /\ lineOr(t.current, i) # lineOr(t.target, i)

\* Line 179 for document line d.
docMatches(t, i, d) ==
  \/ trimLine(lineOr(t.doc, d)) = trimLine(lineOr(t.current, i))
  \/ trimLine(lineOr(t.doc, d)) = trimLine(lineOr(t.target, i))

\* Lines 178-184: the loop over the document's lines from d on, which
\* pushes the first matching line and breaks.
RECURSIVE searchFrom(_, _, _)
searchFrom(t, i, d) ==
  IF d >= Len(t.doc) THEN << >>
  ELSE IF docMatches(t, i, d) THEN <<d>>
  ELSE searchFrom(t, i, d + 1)

\* Lines 170-186: the loop over the indexes from i on; conflictLines in
\* push order.
RECURSIVE walkFrom(_, _, _)
walkFrom(t, i, maxLines) ==
  IF i >= maxLines THEN << >>
  ELSE (IF isDivergence(t, i) THEN searchFrom(t, i, 0) ELSE << >>)
       \o walkFrom(t, i + 1, maxLines)

\* [...new Set(conflictLines)] (line 188) with the duplicates kept.
unique_keepAll(s) == s

\* [...new Set(conflictLines)] (line 188): first occurrences, in order.
unique(s) ==
  LET keep == {k \in 1..Len(s) : \A j \in 1..(k - 1) : s[j] # s[k]}
      f[k \in 0..Len(s)] ==
        IF k = 0 THEN << >>
        ELSE IF k \in keep THEN Append(f[k - 1], s[k]) ELSE f[k - 1]
  IN f[Len(s)]

\* analyzeFileConflicts, lines 147-195.
analyzeFileConflicts(t) ==
  IF ~TruthyContent(t.current) \/ ~TruthyContent(t.target) \/ ~TruthyContent(t.base)
  THEN << >>
  ELSE unique(walkFrom(t, 0, Max(Len(t.current), Max(Len(t.target), Len(t.base)))))

\* vscode.Range reduced to its first and last line.
Range(startLine, endLine) == [startLine |-> startLine, endLine |-> endLine]

\* document.lineCount: the number of lines of the document's text.
lineCount(t) == Len(t.doc)

\* Line 283 with the range of the first line only.
wholeDocument_firstLine(t) == <<Range(0, 0)>>

\* Line 283: new vscode.Range(0, 0, Math.max(0, document.lineCount - 1), 0).
wholeDocument(t) == <<Range(0, Max(0, lineCount(t) - 1))>>

\* Lines 273-285: the decorations for the returned line numbers.
decorationsFor(t, conflictLineNumbers) ==
  IF Len(conflictLineNumbers) > 0
  THEN [k \in 1..Len(conflictLineNumbers) |->
          LET line == Min(conflictLineNumbers[k], lineCount(t) - 1)
          IN Range(line, line)]
  ELSE wholeDocument(t)

Marks(lines, decorations) == [lines |-> lines, decorations |-> decorations]

NoTexts == Texts(NULLOUT, NULLOUT, NULLOUT, <<"">>)
NoMarks == Marks(<< >>, << >>)

(***************************************************************************)
(* The answers behind one call of detectPotentialConflicts                 *)
(*                                                                         *)
(* curOut and tgtOut are what `git diff --name-only` prints for the two    *)
(* sides when it succeeds; failed[i] are the sides whose command of        *)
(* approach i fails; refs says which of the other commands fail; dirs are  *)
(* the paths that are directories in the working tree.                     *)
(***************************************************************************)

MaxDiffLines == 2

\* Paths a diff may list: a file, a file whose name starts with a blank, a
\* file that differs from the first only in case, a file whose name starts
\* with '#', and a submodule (a directory on disk).
DiffPaths == {"a.ts", " a.ts", "A.ts", "#notes.md", "lib"}

\* command.ts:27: the output arrives trimmed, so its first line does not
\* start with a blank.
DiffOutputs == {o \in SeqsUpTo(DiffPaths, MaxDiffLines) : o = << >> \/ o[1] # " a.ts"}

Sides == {"cur", "tgt"}
FailedSides == {{}, {"tgt"}, Sides}
Approaches == 1..3

DiffAnswers(cur, tgt, curOut, tgtOut, failed, refs, dirs) ==
  [cur |-> cur, tgt |-> tgt, curOut |-> curOut, tgtOut |-> tgtOut,
   failed |-> failed, refs |-> refs, dirs |-> dirs]

NoAnswers == DiffAnswers(<<"main">>, <<"dev">>, << >>, << >>,
                         [i \in Approaches |-> {}], "ok", {})

\* executeGitCommand's answer to the diff of approach i for one side.
attemptAnswer(a, i, side) ==
  IF side \in a.failed[i] THEN NULLOUT
  ELSE IF side = "cur" THEN a.curOut ELSE a.tgtOut

\* The answers of the commands of detectConflicts.ts lines 115-138 and
\* 204-245 for a.
AnswersGit(a) ==
  LET rev(sha) == IF a.refs = "norev" THEN NULL ELSE sha
      remote == IF a.refs = "same" THEN "c1" ELSE "c2"
      probe == IF a.refs = "noprobe" THEN NULL ELSE ""
  IN [lrRevLocal |-> rev("c1"), lrRevRemote |-> rev(remote),
      lrMergeBase |-> IF a.refs = "nobase" THEN NULL ELSE "c0",
      lrDiffLocal |-> attemptAnswer(a, 1, "cur"),
      lrDiffRemote |-> attemptAnswer(a, 1, "tgt"),
      exBase |-> probe, exCur |-> probe, exTgt |-> probe,
      d1c |-> attemptAnswer(a, 1, "cur"), d1t |-> attemptAnswer(a, 1, "tgt"),
      d2c |-> attemptAnswer(a, 2, "cur"), d2t |-> attemptAnswer(a, 2, "tgt"),
      shaB |-> rev("c0"), shaC |-> rev("c1"), shaT |-> rev(remote),
      d3c |-> attemptAnswer(a, 3, "cur"), d3t |-> attemptAnswer(a, 3, "tgt"),
      dirs |-> a.dirs]

\* The call checkConflictForDocument.ts:104 makes.
potentialConflicts(a) == detectPotentialConflicts(AnswersGit(a), a.cur, a.tgt)

(***************************************************************************)
(* The extension host (extension.ts, watchWorkspace of utils/utils.ts)     *)
(*                                                                         *)
(* VS Code delivers events one at a time; a handler runs to its end before *)
(* the next event is taken.  checkConflictForDocument has no await in it   *)
(* and every git command is an execSync, so a scan blocks the host from    *)
(* its first command to its return: events fired in the meantime wait in   *)
(* the queue.  The extension is enabled and a.ts is the one open document  *)
(* of a workspace folder.                                                  *)
(***************************************************************************)

MaxQueue == 2
MaxScans == 3

\* An event in the queue.  during and key are bookkeeping for the document
\* triggers: the number and the target of the scan of extension.ts that was
\* running when the trigger was fired, 0 and NullRef when none was.
Event(type, during, key) == [type |-> type, during |-> during, key |-> key]

\* The scan in progress: who called it, with which target name, and its
\* number when extension.ts started it.
Run(by, target, no) == [by |-> by, target |-> target, no |-> no]
Idle == Run("none", NullRef, 0)

\* The targetBranch setting at activation; watchWorkspace keeps this value
\* for the life of the extension (extension.ts:210, utils.ts:586).
InitialTarget == <<"dev">>
watcherTarget == InitialTarget

NoneCompleted == [done |-> FALSE, conflict |-> FALSE, target |-> NullRef]

\* Repositories of the extension-host specification: a.ts unchanged, and
\* a.ts changed on both sides with a merge that conflicts.
HostWorld(tri) ==
  World(Document("a.ts", "file", "file", FALSE), <<"main">>, TRUE, AllLocals, OriginRemotes,
        FALSE, tri, <<"<<<<<<<", "=======", ">>>>>>>">>, {})
HostWorlds == {HostWorld(<<"1", "1", "1">>), HostWorld(<<"1", "2", "3">>)}

\* Values of the variables a specification does not use.
IdleClassify == cand = [eB |-> FALSE, eC |-> FALSE, eT |-> FALSE,
                        sB |-> "", sC |-> "", sT |-> "", mt |-> << >>]
                /\ verdict = NoVerdict
                /\ detectorVerdict = FALSE
IdleResolve == rin = [name |-> <<"main">>, locals |-> << >>, remotes |-> << >>]
               /\ rout = NullRef /\ rout2 = NullRef
IdleScan == /\ world = World(Document("a.ts", "file", "file", FALSE), <<"main">>, TRUE,
                             AllLocals, OriginRemotes, TRUE, <<"1", "1", "1">>,
                             <<"@@ -1 +1 @@">>, {})
            /\ conflictedFilesSet = {}
            /\ watcherSet = {}
            /\ last = NoCall
            /\ again = NoCall
IdleHost == /\ targetBranch = <<"main">> /\ configTarget = <<"main">>
            /\ autoRefresh = TRUE
            /\ visibleEditors = {} /\ queue = << >> /\ running = Idle
            /\ scanNo = 0 /\ completed = NoneCompleted
            /\ rerunOf = 0 /\ rerunCount = 0
            /\ isExtensionEnabled = TRUE /\ configEnabled = TRUE
            /\ providerFiles = {} /\ detectorSet = {}

IdleDiff == answers = NoAnswers /\ changes = {}
IdleCommand == invocation = NoInvocation /\ returned = NoReturn
IdleLocate == texts = NoTexts /\ marks = NoMarks
NotReported == [reported |-> FALSE, pending |-> 0, existedSince |-> FALSE]
IdleWatch == onDisk = TRUE /\ awaiting = 0 /\ deleteReported = NotReported
IdleProvider == conflictedFiles = << >> /\ updates = << >>
IdleMonitor == /\ connectivityCheckInterval = 0 /\ activeIntervals = {}
               /\ timersCreated = 0 /\ isOnline = TRUE
               /\ checksInFlight = 0 /\ warnedRecently = FALSE

InitClassify ==
  /\ pc = "input"
  /\ cand \in Candidates
  /\ verdict = NoVerdict
  /\ detectorVerdict = FALSE
  /\ IdleResolve
  /\ IdleScan
  /\ IdleHost
  /\ IdleDiff
  /\ IdleCommand
  /\ IdleLocate
  /\ IdleWatch
  /\ IdleProvider
  /\ IdleMonitor

Classify ==
  /\ pc = "input"
  /\ verdict' = hasRealConflict(cand)
  /\ detectorVerdict' = hasRealConflicts(cand)
  /\ pc' = "done"
  /\ UNCHANGED <<cand, resolveVars, scanVars, hostVars, diffVars, commandVars, locateVars, watchVars, providerVars, monitorVars>>

NextClassify == Classify

SpecClassify == InitClassify /\ [][NextClassify]_vars

(***************************************************************************)
(* Specification of the resolver alone: a name and two listings, one call, *)
(* then a second call on the first call's result.                          *)
(***************************************************************************)

InitResolve ==
  /\ pc = "input"
  /\ rin \in [name : QueryNames, locals : LocalListings, remotes : RemoteListings]
  /\ rout = NullRef
  /\ rout2 = NullRef
  /\ IdleClassify
  /\ IdleScan
  /\ IdleHost
  /\ IdleDiff
  /\ IdleCommand
  /\ IdleLocate
  /\ IdleWatch
  /\ IdleProvider
  /\ IdleMonitor

Resolve ==
  /\ pc = "input"
  /\ rout' = normalizeBranchName(rin.name, rin.locals, rin.remotes)
  /\ pc' = "done"
  /\ UNCHANGED <<rin, rout2, classifyVars, scanVars, hostVars, diffVars, commandVars, locateVars, watchVars, providerVars, monitorVars>>

ResolveAgain ==
  /\ pc = "done"
  /\ rout # NullRef
  /\ rout2' = normalizeBranchName(rout, rin.locals, rin.remotes)
  /\ pc' = "again"
  /\ UNCHANGED <<rin, rout, classifyVars, scanVars, hostVars, diffVars, commandVars, locateVars, watchVars, providerVars, monitorVars>>

NextResolve == Resolve \/ ResolveAgain

SpecResolve == InitResolve /\ [][NextResolve]_vars

(***************************************************************************)
(* Specification of the change-set computation alone: the answers of the   *)
(* git commands, then one call of detectPotentialConflicts, either between *)
(* two branches or between a branch and its own remote.                    *)
(***************************************************************************)

InitDiff ==
  /\ pc = "input"
  /\ \/ /\ answers \in [cur : {<<"main">>}, tgt : {<<"dev">>},
                        curOut : DiffOutputs, tgtOut : DiffOutputs,
                        failed : [Approaches -> FailedSides],
                        refs : {"ok", "noprobe", "norev"},
                        dirs : {{}, {"lib"}}]
     \/ /\ answers \in [cur : {<<"main">>}, tgt : {<<"origin", "main">>},
                        curOut : DiffOutputs, tgtOut : DiffOutputs,
                        failed : [Approaches -> FailedSides],
                        refs : {"ok", "norev", "nobase", "same"},
                        dirs : {{}, {"lib"}}]
        /\ answers.failed[2] = {}
        /\ answers.failed[3] = {}
  /\ changes = {}
  /\ IdleClassify
  /\ IdleResolve
  /\ IdleScan
  /\ IdleHost
  /\ IdleCommand
  /\ IdleLocate
  /\ IdleWatch
  /\ IdleProvider
  /\ IdleMonitor

\* checkConflictForDocument.ts:104.
DetectPotential ==
  /\ pc = "input"
  /\ changes' = potentialConflicts(answers)
  /\ pc' = "diffed"
  /\ UNCHANGED <<answers, classifyVars, resolveVars, scanVars, hostVars, commandVars, locateVars, watchVars, providerVars, monitorVars>>

NextDiff == DetectPotential

SpecDiff == InitDiff /\ [][NextDiff]_vars

(***************************************************************************)
(* Specification of the command runner alone: one call of                  *)
(* executeGitCommand.                                                      *)
(***************************************************************************)

InitCommand ==
  /\ pc = "input"
  /\ invocation \in {inv \in Invocations : inv.hasGit => inv.cwdExists}
  /\ returned = NoReturn
  /\ IdleClassify
  /\ IdleResolve
  /\ IdleScan
  /\ IdleHost
  /\ IdleDiff
  /\ IdleLocate
  /\ IdleWatch
  /\ IdleProvider
  /\ IdleMonitor

Execute ==
  /\ pc = "input"
  /\ returned' = executeGitCommand(invocation)
  /\ pc' = "ran"
  /\ UNCHANGED <<invocation, classifyVars, resolveVars, scanVars, hostVars, diffVars, locateVars, watchVars, providerVars, monitorVars>>

NextCommand == Execute

SpecCommand == InitCommand /\ [][NextCommand]_vars

(***************************************************************************)
(* Specification of the line locator alone: the three contents and the     *)
(* document of a confirmed conflict, then analyzeFileConflicts and the     *)
(* decorations built from its result.                                      *)
(***************************************************************************)

InitLocate ==
  /\ pc = "input"
  /\ texts \in [base : ContentsOver(BaseTexts), current : ContentsOver(CurrentTexts),
                target : ContentsOver(TargetTexts), doc : DocLines]
  /\ marks = NoMarks
  /\ IdleClassify
  /\ IdleResolve
  /\ IdleScan
  /\ IdleHost
  /\ IdleDiff
  /\ IdleCommand
  /\ IdleWatch
  /\ IdleProvider
  /\ IdleMonitor

\* conflictDetector.ts:271-285.
Locate ==
  /\ pc = "input"
  /\ LET conflictLineNumbers == analyzeFileConflicts(texts)
     IN marks' = Marks(conflictLineNumbers, decorationsFor(texts, conflictLineNumbers))
  /\ pc' = "located"
  /\ UNCHANGED <<texts, classifyVars, resolveVars, scanVars, hostVars, diffVars, commandVars,
                 watchVars, providerVars, monitorVars>>

NextLocate == Locate

SpecLocate == InitLocate /\ [][NextLocate]_vars

(***************************************************************************)
(* Specification of one scan: a world and the two registries as an earlier *)
(* scan may have left them, then one call of checkConflictForDocument,     *)
(* made by extension.ts (the scanner's function) or by watchWorkspace (the *)
(* watcher's copy).                                                        *)
(***************************************************************************)

\* What an earlier scan of the document at path p can have registered:
\* nothing when the scan of p returns at line 58.
Registrable(p) == IF isIgnoredPath(p) THEN {} ELSE {p}

InitScan ==
  /\ pc = "input"
  /\ world \in Worlds
  /\ conflictedFilesSet \in SUBSET (Registrable(world.doc.path) \cup {OtherPath})
  /\ watcherSet = conflictedFilesSet
  /\ last = NoCall
  /\ again = NoCall
  /\ IdleClassify
  /\ IdleResolve
  /\ IdleHost
  /\ IdleDiff
  /\ IdleCommand
  /\ IdleLocate
  /\ IdleWatch
  /\ IdleProvider
  /\ IdleMonitor

\* extension.ts:245 and :264: await checkConflictForDocument(document, ...).
ScanDocument ==
  /\ pc = "input"
  /\ LET r == scan(world)
     IN /\ conflictedFilesSet' = scannerTypes(r, world.doc.path, conflictedFilesSet)
        /\ watcherSet' = scannerWatcher(r, world.doc.path, watcherSet)
        /\ last' = Call(r, "scanner", conflictedFilesSet, watcherSet)
  /\ pc' = "done"
  /\ UNCHANGED <<world, again, classifyVars, resolveVars, hostVars, diffVars, commandVars, locateVars, watchVars, providerVars, monitorVars>>

\* utils.ts:606 and :624: the watcher's onDidChange / onDidCreate.
WatcherScan ==
  /\ pc = "input"
  /\ LET r == scan(world)
     IN /\ watcherSet' = watcherWatcher(r, world.doc.path, watcherSet)
        /\ last' = Call(r, "watcher", conflictedFilesSet, watcherSet)
  /\ pc' = "done"
  /\ UNCHANGED <<world, again, conflictedFilesSet, classifyVars, resolveVars, hostVars, diffVars, commandVars, locateVars, watchVars, providerVars, monitorVars>>

\* extension.ts makes the same call again: same document, same target,
\* same answers from git.
ScanDocumentAgain ==
  /\ pc = "done"
  /\ last.by = "scanner"
  /\ LET r == scan(world)
     IN /\ conflictedFilesSet' = scannerTypes(r, world.doc.path, conflictedFilesSet)
        /\ watcherSet' = scannerWatcher(r, world.doc.path, watcherSet)
        /\ again' = Call(r, "scanner", conflictedFilesSet, watcherSet)
  /\ pc' = "again"
  /\ UNCHANGED <<world, last, classifyVars, resolveVars, hostVars, diffVars, commandVars, locateVars, watchVars, providerVars, monitorVars>>

\* The watcher makes the same call again.
WatcherScanAgain ==
  /\ pc = "done"
  /\ last.by = "watcher"
  /\ LET r == scan(world)
     IN /\ watcherSet' = watcherWatcher(r, world.doc.path, watcherSet)
        /\ again' = Call(r, "watcher", conflictedFilesSet, watcherSet)
  /\ pc' = "again"
  /\ UNCHANGED <<world, conflictedFilesSet, last, classifyVars, resolveVars, hostVars, diffVars, commandVars, locateVars, watchVars, providerVars, monitorVars>>

NextScan == ScanDocument \/ WatcherScan \/ ScanDocumentAgain \/ WatcherScanAgain

SpecScan == InitScan /\ [][NextScan]_vars

(***************************************************************************)
(* Specification of the extension host                                     *)
(***************************************************************************)

\* activate(): the settings are read, the watcher gets the target of that
\* moment, and the initial refreshAllConflicts() (extension.ts:215-217)
\* enters its scan of a.ts.
Init ==
  /\ pc = "host"
  /\ world \in HostWorlds
  /\ conflictedFilesSet = {}
  /\ watcherSet = {}
  /\ last = NoCall
  /\ again = NoCall
  /\ configTarget = InitialTarget
  /\ targetBranch = InitialTarget
  /\ autoRefresh \in BOOLEAN
  /\ visibleEditors \in SUBSET {"a.ts"}
  /\ queue = << >>
  /\ running = Run("scanner", InitialTarget, 1)
  /\ scanNo = 1
  /\ completed = NoneCompleted
  /\ rerunOf = 0
  /\ rerunCount = 0
  /\ isExtensionEnabled = TRUE
  /\ configEnabled = TRUE
  /\ providerFiles = {}
  /\ detectorSet = {}
  /\ IdleClassify
  /\ IdleResolve
  /\ IdleDiff
  /\ IdleCommand
  /\ IdleLocate
  /\ IdleWatch
  /\ IdleProvider
  /\ IdleMonitor

\* A document trigger fired now, tagged with the scan it overlaps.
Trigger(type) ==
  IF running.no > 0 THEN Event(type, running.no, running.target)
  ELSE Event(type, 0, NullRef)

fire(e) ==
  /\ Len(queue) < MaxQueue
  /\ queue' = Append(queue, e)

otherVars == <<pc, classifyVars, resolveVars, diffVars, commandVars, locateVars, watchVars, providerVars, monitorVars>>

untouchedByEvents ==
  UNCHANGED <<otherVars, scanVars, targetBranch, autoRefresh, visibleEditors, running,
              scanNo, completed, rerunOf, rerunCount, isExtensionEnabled,
              providerFiles, detectorSet>>

\* The user edits a.ts: onDidChangeTextDocument fires.
DocumentChanged ==
  /\ fire(Trigger("change"))
  /\ UNCHANGED <<configTarget, configEnabled>>
  /\ untouchedByEvents

\* a.ts is opened (again): onDidOpenTextDocument fires.
DocumentOpened ==
  /\ fire(Trigger("open"))
  /\ UNCHANGED <<configTarget, configEnabled>>
  /\ untouchedByEvents

\* a.ts changes on disk: the file system watcher's onDidChange fires.
FileChanged ==
  /\ fire(Event("fs", 0, NullRef))
  /\ UNCHANGED <<configTarget, configEnabled>>
  /\ untouchedByEvents

\* The targetBranch setting is edited: onDidChangeConfiguration fires.
ConfigurationChanged ==
  /\ \E t \in TargetNames \ {configTarget} : configTarget' = t
  /\ fire(Event("config", 0, NullRef))
  /\ UNCHANGED configEnabled
  /\ untouchedByEvents

\* The enabled setting is edited: onDidChangeConfiguration fires.
EnabledSettingChanged ==
  /\ configEnabled' = ~configEnabled
  /\ fire(Event("config", 0, NullRef))
  /\ UNCHANGED configTarget
  /\ untouchedByEvents

\* The user runs the command gitConflictAnticipator.refreshTree.
RefreshRequested ==
  /\ fire(Event("refresh", 0, NullRef))
  /\ UNCHANGED <<configTarget, configEnabled>>
  /\ untouchedByEvents

\* The user runs the command gitConflictAnticipator.disable.
DisableRequested ==
  /\ fire(Event("disable", 0, NullRef))
  /\ UNCHANGED <<configTarget, configEnabled>>
  /\ untouchedByEvents

\* The user runs the command gitConflictAnticipator.enable.
EnableRequested ==
  /\ fire(Event("enable", 0, NullRef))
  /\ UNCHANGED <<configTarget, configEnabled>>
  /\ untouchedByEvents

\* An editor of a.ts becomes visible, or the last one is hidden.
EditorToggled ==
  /\ visibleEditors' = {"a.ts"} \ visibleEditors
  /\ UNCHANGED <<otherVars, scanVars, targetBranch, configTarget, autoRefresh, queue,
                 running, scanNo, completed, rerunOf, rerunCount, isExtensionEnabled,
                 configEnabled, providerFiles, detectorSet>>

\* A commit, a checkout of a.ts or a fetch changes what git will answer.
RepositoryChanged ==
  /\ world' \in HostWorlds \ {world}
  /\ UNCHANGED <<otherVars, conflictedFilesSet, watcherSet, last, again, hostVars>>

\* The host takes the next event.
take(type) ==
  /\ running = Idle
  /\ queue # << >>
  /\ Head(queue).type = type
  /\ queue' = Tail(queue)

\* The host takes the next event, and config.update(key, value) of the
\* handler fires onDidChangeConfiguration when it changes the setting.
takeAndUpdate(type, changed) ==
  /\ running = Idle
  /\ queue # << >>
  /\ Head(queue).type = type
  /\ queue' = IF changed THEN Append(Tail(queue), Event("config", 0, NullRef))
              ELSE Tail(queue)

\* conflictDetector.ts:374-376, the getConflictedFiles extension.ts:4 imports.
getConflictedFiles == detectorSet

\* vscode.window.visibleTextEditors.forEach(editor =>
\* clearDecorations(editor.document)), extension.ts:144 and :175, with the
\* clearDecorations of the watcher (utils.ts:577-583).
clearVisibleEditors(S) == S \ visibleEditors

\* handleDocumentChange, extension.ts:233-248, up to the call of the scan:
\* the target is read from the provider and the scan starts, whatever ran
\* or was queued before.
handleDocumentChange(e) ==
  /\ scanNo < MaxScans
  /\ scanNo' = scanNo + 1
  /\ running' = Run("scanner", targetBranch, scanNo + 1)
  /\ IF e.during > 0 /\ e.key = targetBranch
     THEN /\ rerunOf' = e.during
          /\ rerunCount' = IF rerunOf = e.during THEN rerunCount + 1 ELSE 1
     ELSE UNCHANGED <<rerunOf, rerunCount>>

\* docChangeListener, extension.ts:182-189.
docChangeListener ==
  /\ take("change")
  /\ IF isExtensionEnabled /\ autoRefresh THEN handleDocumentChange(Head(queue))
     ELSE UNCHANGED <<running, scanNo, rerunOf, rerunCount>>
  /\ UNCHANGED <<otherVars, scanVars, targetBranch, configTarget, autoRefresh,
                 visibleEditors, completed, isExtensionEnabled, configEnabled,
                 providerFiles, detectorSet>>

\* docOpenListener, extension.ts:191-196.
docOpenListener ==
  /\ take("open")
  /\ IF isExtensionEnabled THEN handleDocumentChange(Head(queue))
     ELSE UNCHANGED <<running, scanNo, rerunOf, rerunCount>>
  /\ UNCHANGED <<otherVars, scanVars, targetBranch, configTarget, autoRefresh,
                 visibleEditors, completed, isExtensionEnabled, configEnabled,
                 providerFiles, detectorSet>>

\* refreshAllConflicts, extension.ts:250-271, up to the call of the scan of
\* the one open document; by names the caller, which goes on when the scan
\* has returned.
refreshAllConflicts(by, target) ==
  /\ scanNo < MaxScans
  /\ scanNo' = scanNo + 1
  /\ running' = Run(by, target, scanNo + 1)

\* The handler of gitConflictAnticipator.refreshTree, extension.ts:84-91.
refreshTree ==
  /\ take("refresh")
  /\ IF isExtensionEnabled THEN refreshAllConflicts("scanner", targetBranch)
     ELSE UNCHANGED <<running, scanNo>>
  /\ UNCHANGED <<otherVars, scanVars, targetBranch, configTarget, autoRefresh,
                 visibleEditors, completed, rerunOf, rerunCount, isExtensionEnabled,
                 configEnabled, providerFiles, detectorSet>>

\* The handler of gitConflictAnticipator.enable, extension.ts:131-137.
enable ==
  /\ takeAndUpdate("enable", ~configEnabled)
  /\ isExtensionEnabled' = TRUE
  /\ configEnabled' = TRUE
  /\ refreshAllConflicts("scanner", targetBranch)
  /\ UNCHANGED <<otherVars, scanVars, targetBranch, configTarget, autoRefresh,
                 visibleEditors, completed, rerunOf, rerunCount, providerFiles,
                 detectorSet>>

\* The handler of gitConflictAnticipator.disable, extension.ts:139-147.
disable ==
  /\ takeAndUpdate("disable", configEnabled)
  /\ isExtensionEnabled' = FALSE
  /\ configEnabled' = FALSE
  /\ watcherSet' = clearVisibleEditors(watcherSet)
  /\ providerFiles' = {}
  /\ UNCHANGED <<otherVars, world, conflictedFilesSet, last, again, targetBranch,
                 configTarget, autoRefresh, visibleEditors, running, scanNo, completed,
                 rerunOf, rerunCount, detectorSet>>

\* Lines 168-178 of configChangeListener, when no scan ran at line 164.
enabledChanged ==
  IF configEnabled = isExtensionEnabled
  THEN UNCHANGED <<isExtensionEnabled, watcherSet, providerFiles, running, scanNo>>
  ELSE /\ isExtensionEnabled' = configEnabled
       /\ IF configEnabled
          THEN /\ refreshAllConflicts("scanner", configTarget)
               /\ UNCHANGED <<watcherSet, providerFiles>>
          ELSE /\ watcherSet' = clearVisibleEditors(watcherSet)
               /\ providerFiles' = {}
               /\ UNCHANGED <<running, scanNo>>

\* configChangeListener, extension.ts:151-179.  When the target changed and
\* the extension is enabled, the scan of line 164 starts and lines 168-178
\* run when it has returned.
configChangeListener ==
  /\ take("config")
  /\ targetBranch' = configTarget
  /\ IF configTarget # targetBranch /\ isExtensionEnabled
     THEN /\ refreshAllConflicts(IF configEnabled THEN "scanner" ELSE "configChangeListener",
                                 configTarget)
          /\ UNCHANGED <<isExtensionEnabled, watcherSet, providerFiles>>
     ELSE enabledChanged
  /\ UNCHANGED <<otherVars, world, conflictedFilesSet, last, again, configTarget,
                 autoRefresh, visibleEditors, completed, rerunOf, rerunCount,
                 configEnabled, detectorSet>>

\* fileWatcher.onDidChange, utils.ts:598-613, up to the call of the
\* watcher's checkConflictForDocument with the target of activation time.
watcherOnDidChange ==
  /\ take("fs")
  /\ running' = Run("watcher", watcherTarget, 0)
  /\ UNCHANGED <<otherVars, scanVars, targetBranch, configTarget, autoRefresh,
                 visibleEditors, scanNo, completed, rerunOf, rerunCount,
                 isExtensionEnabled, configEnabled, providerFiles, detectorSet>>

\* The document as the running scan sees it.
openDocument == Document("a.ts", "file", "file", "a.ts" \in visibleEditors)

\* executeCommand('gitConflictAnticipator.refreshTree') at the end of a scan
\* that confirmed a conflict (checkConflictForDocument.ts:162).
afterScan(r) == IF r.refreshTree THEN Append(queue, Event("refresh", 0, NullRef)) ELSE queue

\* The scan called by extension.ts returns and the caller hands
\* getConflictedFiles() to the provider (lines 246-247 and 267-268).
scanReturns(r) ==
  /\ conflictedFilesSet' = scannerTypes(r, "a.ts", conflictedFilesSet)
  /\ completed' = IF r.outcome \in {"nopotential", "notpotential", "notconflict", "confirmed"}
                  THEN [done |-> TRUE, conflict |-> r.outcome = "confirmed",
                        target |-> running.target]
                  ELSE completed
  /\ queue' = afterScan(r)
  /\ running' = Idle

\* A scan called by handleDocumentChange or refreshAllConflicts returns.
ScanReturns ==
  /\ running.by = "scanner"
  /\ LET r == checkConflictForDocument(openDocument, running.target, world)
     IN /\ scanReturns(r)
        /\ watcherSet' = scannerWatcher(r, "a.ts", watcherSet)
  /\ providerFiles' = getConflictedFiles
  /\ UNCHANGED <<otherVars, world, last, again, targetBranch, configTarget, autoRefresh,
                 visibleEditors, scanNo, rerunOf, rerunCount, isExtensionEnabled,
                 configEnabled, detectorSet>>

\* The scan of extension.ts:164 returns and configChangeListener goes on at
\* line 168 with newEnabled false and isExtensionEnabled true.
ConfigScanReturns ==
  /\ running.by = "configChangeListener"
  /\ LET r == checkConflictForDocument(openDocument, running.target, world)
     IN /\ scanReturns(r)
        /\ watcherSet' = clearVisibleEditors(scannerWatcher(r, "a.ts", watcherSet))
  /\ isExtensionEnabled' = FALSE
  /\ providerFiles' = {}
  /\ UNCHANGED <<otherVars, world, last, again, targetBranch, configTarget, autoRefresh,
                 visibleEditors, scanNo, rerunOf, rerunCount, configEnabled, detectorSet>>

\* A scan called by the watcher returns.
WatcherScanReturns ==
  /\ running.by = "watcher"
  /\ LET r == checkConflictForDocument(openDocument, running.target, world)
     IN /\ watcherSet' = watcherWatcher(r, "a.ts", watcherSet)
        /\ queue' = afterScan(r)
  /\ running' = Idle
  /\ UNCHANGED <<otherVars, world, conflictedFilesSet, last, again, targetBranch,
                 configTarget, autoRefresh, visibleEditors, scanNo, completed, rerunOf,
                 rerunCount, isExtensionEnabled, configEnabled, providerFiles,
                 detectorSet>>

Next ==
  \/ DocumentChanged \/ DocumentOpened \/ FileChanged \/ ConfigurationChanged
  \/ EnabledSettingChanged \/ RefreshRequested \/ DisableRequested \/ EnableRequested
  \/ EditorToggled \/ RepositoryChanged
  \/ docChangeListener \/ docOpenListener \/ refreshTree \/ enable \/ disable
  \/ configChangeListener \/ watcherOnDidChange
  \/ ScanReturns \/ ConfigScanReturns \/ WatcherScanReturns

Spec == Init /\ [][Next]_vars

(***************************************************************************)
(* Specification of the extension host after one external trigger: the     *)
(* trigger is queued, nothing else happens outside, and the handlers of    *)
(* extension.ts run for as long as there is something to run.  Scans are   *)
(* not counted here, so a behaviour may go on for ever.                    *)
(***************************************************************************)

ExternalTriggers == {"open", "change", "refresh", "config"}

InitQuiesce ==
  /\ pc = "quiesce"
  /\ world \in HostWorlds
  /\ conflictedFilesSet \in SUBSET {"a.ts"}
  /\ watcherSet = {}
  /\ last = NoCall
  /\ again = NoCall
  /\ targetBranch = InitialTarget
  /\ configTarget \in TargetNames
  /\ autoRefresh \in BOOLEAN
  /\ visibleEditors \in SUBSET {"a.ts"}
  /\ \E type \in ExternalTriggers :
        /\ queue = <<Event(type, 0, NullRef)>>
        /\ type = "config" <=> configTarget # targetBranch
  /\ running = Idle
  /\ scanNo = 0
  /\ completed = NoneCompleted
  /\ rerunOf = 0
  /\ rerunCount = 0
  /\ isExtensionEnabled = TRUE
  /\ configEnabled = TRUE
  /\ providerFiles = {}
  /\ detectorSet = {}
  /\ IdleClassify
  /\ IdleResolve
  /\ IdleDiff
  /\ IdleCommand
  /\ IdleLocate
  /\ IdleWatch
  /\ IdleProvider
  /\ IdleMonitor

\* The scan of handleDocumentChange (extension.ts:243-244) or of
\* refreshAllConflicts (256-262) starts.
startScan(target) == running' = Run("scanner", target, 0)

quiesceFrame ==
  UNCHANGED <<otherVars, scanVars, configTarget, autoRefresh, visibleEditors, scanNo,
              completed, rerunOf, rerunCount, isExtensionEnabled, configEnabled,
              providerFiles, detectorSet>>

\* docOpenListener, extension.ts:191-196.
OpenHandled ==
  /\ take("open")
  /\ IF isExtensionEnabled THEN startScan(targetBranch) ELSE UNCHANGED running
  /\ UNCHANGED targetBranch
  /\ quiesceFrame

\* docChangeListener, extension.ts:182-189.
ChangeHandled ==
  /\ take("change")
  /\ IF isExtensionEnabled /\ autoRefresh THEN startScan(targetBranch) ELSE UNCHANGED running
  /\ UNCHANGED targetBranch
  /\ quiesceFrame

\* The handler of gitConflictAnticipator.refreshTree, extension.ts:84-91.
RefreshHandled ==
  /\ take("refresh")
  /\ IF isExtensionEnabled THEN startScan(targetBranch) ELSE UNCHANGED running
  /\ UNCHANGED targetBranch
  /\ quiesceFrame

\* configChangeListener, extension.ts:151-166, the enabled setting unchanged.
ConfigHandled ==
  /\ take("config")
  /\ targetBranch' = configTarget
  /\ IF configTarget # targetBranch /\ isExtensionEnabled
     THEN startScan(configTarget) ELSE UNCHANGED running
  /\ quiesceFrame

\* The scan returns (checkConflictForDocument.ts:20-165, then
\* extension.ts:246-247 or 267-268).
ScanHandled ==
  /\ running.by = "scanner"
  /\ LET r == checkConflictForDocument(openDocument, running.target, world)
     IN /\ scanReturns(r)
        /\ watcherSet' = scannerWatcher(r, "a.ts", watcherSet)
  /\ providerFiles' = getConflictedFiles
  /\ UNCHANGED <<otherVars, world, last, again, targetBranch, configTarget, autoRefresh,
                 visibleEditors, scanNo, rerunOf, rerunCount, isExtensionEnabled,
                 configEnabled, detectorSet>>

NextQuiesce ==
  OpenHandled \/ ChangeHandled \/ RefreshHandled \/ ConfigHandled \/ ScanHandled

\* The extension host runs a pending handler or continuation if there is
\* one.
SpecQuiesce == InitQuiesce /\ [][NextQuiesce]_vars /\ WF_vars(NextQuiesce)

(***************************************************************************)
(* Specification of the workspace file watcher (utils.ts:586-662) on one   *)
(* file, a.ts.  The file is written, deleted and created again outside;    *)
(* the watcher's events queue up and its handlers run one at a time.  A    *)
(* change or create handler waits for openTextDocument, and what follows   *)
(* the wait, the watcher's checkConflictForDocument, runs without a break  *)
(* (every git command is an execSync).                                     *)
(***************************************************************************)

MaxAwaiting == 2

InitWatch ==
  /\ pc = "watch"
  /\ world \in HostWorlds
  /\ conflictedFilesSet = {}
  /\ watcherSet \in SUBSET {"a.ts"}
  /\ last = NoCall
  /\ again = NoCall
  /\ targetBranch = InitialTarget
  /\ configTarget = InitialTarget
  /\ autoRefresh = TRUE
  /\ visibleEditors \in SUBSET {"a.ts"}
  /\ queue = << >>
  /\ running = Idle
  /\ scanNo = 0
  /\ completed = NoneCompleted
  /\ rerunOf = 0
  /\ rerunCount = 0
  /\ isExtensionEnabled = TRUE
  /\ configEnabled = TRUE
  /\ providerFiles = {}
  /\ detectorSet = {}
  /\ onDisk = TRUE
  /\ awaiting = 0
  /\ deleteReported = NotReported
  /\ IdleClassify
  /\ IdleResolve
  /\ IdleDiff
  /\ IdleCommand
  /\ IdleLocate
  /\ IdleProvider
  /\ IdleMonitor

watchFrame ==
  UNCHANGED <<pc, classifyVars, resolveVars, diffVars, commandVars, locateVars,
              providerVars, monitorVars, world, conflictedFilesSet, last, again, targetBranch, configTarget,
              autoRefresh, visibleEditors, running, scanNo, completed, rerunOf, rerunCount,
              isExtensionEnabled, configEnabled, providerFiles, detectorSet>>

\* Something outside writes the file, deletes it, or creates it again.
FileWritten ==
  /\ onDisk
  /\ Len(queue) < MaxQueue
  /\ queue' = Append(queue, Event("fs", 0, NullRef))
  /\ UNCHANGED <<watcherSet, onDisk, awaiting, deleteReported>>
  /\ watchFrame

FileDeleted ==
  /\ onDisk
  /\ Len(queue) < MaxQueue
  /\ onDisk' = FALSE
  /\ queue' = Append(queue, Event("deleted", 0, NullRef))
  /\ UNCHANGED <<watcherSet, awaiting, deleteReported>>
  /\ watchFrame

FileCreated ==
  /\ ~onDisk
  /\ Len(queue) < MaxQueue
  /\ onDisk' = TRUE
  /\ queue' = Append(queue, Event("created", 0, NullRef))
  /\ deleteReported' = IF deleteReported.reported
                       THEN [deleteReported EXCEPT !.existedSince = TRUE]
                       ELSE deleteReported
  /\ UNCHANGED <<watcherSet, awaiting>>
  /\ watchFrame

\* fileWatcher.onDidChange, utils.ts:599-606, up to
\* `await vscode.workspace.openTextDocument(uri)`.
onDidChange ==
  /\ take("fs")
  /\ awaiting < MaxAwaiting
  /\ awaiting' = awaiting + 1
  /\ deleteReported' = NotReported
  /\ UNCHANGED <<watcherSet, onDisk>>
  /\ watchFrame

\* fileWatcher.onDidCreate, utils.ts:616-623, up to the same await.
onDidCreate ==
  /\ take("created")
  /\ awaiting < MaxAwaiting
  /\ awaiting' = awaiting + 1
  /\ deleteReported' = NotReported
  /\ UNCHANGED <<watcherSet, onDisk>>
  /\ watchFrame

\* fileWatcher.onDidDelete, utils.ts:632-642.
onDidDelete ==
  /\ take("deleted")
  /\ watcherSet' = watcherSet \ {"a.ts"}
  /\ deleteReported' = [reported |-> TRUE, pending |-> awaiting, existedSince |-> onDisk]
  /\ UNCHANGED <<onDisk, awaiting>>
  /\ watchFrame

\* fs.statSync (utils.ts:441-450) finding a file whatever the file system
\* holds.
statOf_alwaysFile(exists) == "file"

\* What fs.statSync (utils.ts:441-450) finds at the path of a regular file
\* that exists or not.
statOf(exists) == IF exists THEN "file" ELSE "missing"

\* The document the handler scans; the file system is looked at when the
\* handler goes on.
watchedDocument == Document("a.ts", "file", statOf(onDisk), "a.ts" \in visibleEditors)

\* openTextDocument settles and the handler goes on (utils.ts:607-610 and
\* 624-627): a rejection is caught and logged (611-613, 628-630); otherwise
\* the watcher's checkConflictForDocument runs, and a confirming scan ends
\* with executeCommand('gitConflictAnticipator.refreshTree') (utils.ts:572).
openTextDocumentSettles ==
  /\ running = Idle
  /\ awaiting > 0
  /\ awaiting' = awaiting - 1
  /\ \E opened \in BOOLEAN :
        IF opened
        THEN LET r == checkConflictForDocument(watchedDocument, watcherTarget, world)
             IN /\ watcherSet' = watcherWatcher(r, "a.ts", watcherSet)
                /\ queue' = afterScan(r)
        ELSE UNCHANGED <<watcherSet, queue>>
  /\ UNCHANGED <<onDisk, deleteReported>>
  /\ watchFrame

\* The handler of gitConflictAnticipator.refreshTree (extension.ts:84-91)
\* with the scan of refreshAllConflicts (250-271): the scanner's
\* clearDecorations deletes from the watcher's set.
watchRefreshTree ==
  /\ running = Idle
  /\ queue # << >>
  /\ Head(queue).type = "refresh"
  /\ LET r == checkConflictForDocument(watchedDocument, targetBranch, world)
     IN /\ watcherSet' = scannerWatcher(r, "a.ts", watcherSet)
        /\ conflictedFilesSet' = scannerTypes(r, "a.ts", conflictedFilesSet)
        /\ queue' = IF r.refreshTree THEN Append(Tail(queue), Event("refresh", 0, NullRef))
                    ELSE Tail(queue)
  /\ UNCHANGED <<pc, classifyVars, resolveVars, diffVars, commandVars, locateVars,
                 providerVars, monitorVars, world, last, again, targetBranch, configTarget,
                 autoRefresh, visibleEditors, running, scanNo, completed, rerunOf, rerunCount,
                 isExtensionEnabled, configEnabled, providerFiles, detectorSet,
                 onDisk, awaiting, deleteReported>>

NextWatch ==
  \/ FileWritten \/ FileDeleted \/ FileCreated
  \/ onDidChange \/ onDidCreate \/ onDidDelete
  \/ openTextDocumentSettles \/ watchRefreshTree

SpecWatch == InitWatch /\ [][NextWatch]_vars

(***************************************************************************)
(* Specification of ConflictFilesProvider.updateConflictedFiles            *)
(* (the provider of the tree view): the provider is constructed with an    *)
(* empty list and its callers hand it one list after another.              *)
(***************************************************************************)

MaxListLen == 2
MaxUpdates == 3

FileLists == SeqsUpTo(Paths, MaxListLen)

\* One call: its argument and whether showWarningMessage was called.
Update(files, warned) == [files |-> files, warned |-> warned]

\* Line 25 with the test of hadConflicts left out.
warns_wheneverNonEmpty(files, hadConflicts) == Len(files) > 0

\* files.length > 0 && !hadConflicts (line 25).
warns(files, hadConflicts) == Len(files) > 0 /\ ~hadConflicts

InitProvider ==
  /\ pc = "provider"
  /\ conflictedFiles = << >>
  /\ updates = << >>
  /\ IdleClassify
  /\ IdleResolve
  /\ IdleScan
  /\ IdleHost
  /\ IdleDiff
  /\ IdleCommand
  /\ IdleLocate
  /\ IdleWatch
  /\ IdleMonitor

\* updateConflictedFiles(files), lines 20-28.
updateConflictedFiles ==
  /\ pc = "provider"
  /\ Len(updates) < MaxUpdates
  /\ \E files \in FileLists :
        LET hadConflicts == Len(conflictedFiles) > 0
        IN /\ conflictedFiles' = files
           /\ updates' = Append(updates, Update(files, warns(files, hadConflicts)))
  /\ UNCHANGED <<pc, classifyVars, resolveVars, scanVars, hostVars, diffVars, commandVars,
                 locateVars, watchVars, monitorVars>>

NextProvider == updateConflictedFiles

SpecProvider == InitProvider /\ [][NextProvider]_vars

(***************************************************************************)
(* Specification of connectivity monitoring (the module whose default      *)
(* export is startConnectivityMonitoring, stopConnectivityMonitoring and   *)
(* checkConnectivityAndUpdate).  A timer handle is a positive number, 0    *)
(* stands for null.                                                        *)
(***************************************************************************)

MaxTimers == 4
MaxChecks == 3

\* clearInterval leaving the interval running.
clearInterval_noEffect(handle, active) == active

\* clearInterval(handle).
clearInterval(handle, active) == active \ {handle}

InitMonitor ==
  /\ pc = "monitor"
  /\ connectivityCheckInterval = 0
  /\ activeIntervals = {}
  /\ timersCreated = 0
  /\ isOnline = TRUE
  /\ checksInFlight = 0
  /\ warnedRecently = FALSE
  /\ IdleClassify
  /\ IdleResolve
  /\ IdleScan
  /\ IdleHost
  /\ IdleDiff
  /\ IdleCommand
  /\ IdleLocate
  /\ IdleWatch
  /\ IdleProvider

monitorFrame ==
  UNCHANGED <<pc, classifyVars, resolveVars, scanVars, hostVars, diffVars, commandVars,
              locateVars, watchVars, providerVars>>

\* checkConnectivityAndUpdate up to `await checkInternetConnectivity()`
\* (lines 51-52): one more dns lookup is in flight.
checkConnectivityAndUpdate == checksInFlight' = checksInFlight + 1

\* startConnectivityMonitoring, lines 57-70.
startConnectivityMonitoring ==
  /\ timersCreated < MaxTimers
  /\ checksInFlight < MaxChecks
  /\ LET remaining == IF connectivityCheckInterval # 0
                      THEN clearInterval(connectivityCheckInterval, activeIntervals)
                      ELSE activeIntervals
         handle == timersCreated + 1
     IN /\ activeIntervals' = remaining \cup {handle}
        /\ connectivityCheckInterval' = handle
        /\ timersCreated' = handle
  /\ checkConnectivityAndUpdate
  /\ UNCHANGED <<isOnline, warnedRecently>>
  /\ monitorFrame

\* stopConnectivityMonitoring, lines 73-78.
stopConnectivityMonitoring ==
  /\ IF connectivityCheckInterval # 0
     THEN /\ activeIntervals' = clearInterval(connectivityCheckInterval, activeIntervals)
          /\ connectivityCheckInterval' = 0
     ELSE UNCHANGED <<activeIntervals, connectivityCheckInterval>>
  /\ UNCHANGED <<timersCreated, isOnline, checksInFlight, warnedRecently>>
  /\ monitorFrame

\* An active interval fires (lines 63-65).
intervalFires ==
  /\ activeIntervals # {}
  /\ checksInFlight < MaxChecks
  /\ checkConnectivityAndUpdate
  /\ UNCHANGED <<connectivityCheckInterval, activeIntervals, timersCreated, isOnline,
                 warnedRecently>>
  /\ monitorFrame

\* The user picks Retry on the warning of a lost connection (lines 37-41).
retrySelected ==
  /\ ~isOnline
  /\ checksInFlight < MaxChecks
  /\ checkConnectivityAndUpdate
  /\ UNCHANGED <<connectivityCheckInterval, activeIntervals, timersCreated, isOnline,
                 warnedRecently>>
  /\ monitorFrame

\* A dns lookup settles and showConnectivityWarning runs (lines 23-48, 53).
showConnectivityWarning ==
  /\ checksInFlight > 0
  /\ checksInFlight' = checksInFlight - 1
  /\ \E isConnected \in BOOLEAN :
        IF warnedRecently
        THEN UNCHANGED <<isOnline, warnedRecently>>
        ELSE /\ warnedRecently' = TRUE
             /\ isOnline' = IF ~isConnected /\ isOnline THEN FALSE
                            ELSE IF isConnected /\ ~isOnline THEN TRUE
                            ELSE isOnline
  /\ UNCHANGED <<connectivityCheckInterval, activeIntervals, timersCreated>>
  /\ monitorFrame

\* Thirty seconds have passed since the last warning (line 26).
thirtySecondsPass ==
  /\ warnedRecently
  /\ warnedRecently' = FALSE
  /\ UNCHANGED <<connectivityCheckInterval, activeIntervals, timersCreated, isOnline,
                 checksInFlight>>
  /\ monitorFrame

NextMonitor ==
  \/ startConnectivityMonitoring \/ stopConnectivityMonitoring \/ intervalFires
  \/ retrySelected \/ showConnectivityWarning \/ thirtySecondsPass

SpecMonitor == InitMonitor /\ [][NextMonitor]_vars

(***************************************************************************)
(* Specification of one call of detectConflictFiles: git answers the       *)
(* three-dot diff, the two two-dot diffs and the alternative two-argument  *)
(* diff independently, and some of the tracked paths differ pairwise at    *)
(* base, current and target.                                               *)
(***************************************************************************)

\* What a `git diff --name-only` of detectConflictFiles can answer.
FallbackOutputs == SeqsUpTo(Paths, MaxDiffLines) \cup {NULLOUT}

\* The answers hasRealConflict gets for a path whose three blobs differ
\* pairwise, or are one blob.
fallbackFile(diverged) ==
  IF diverged
  THEN [eB |-> TRUE, eC |-> TRUE, eT |-> TRUE, sB |-> "1", sC |-> "2", sT |-> "3"]
  ELSE [eB |-> TRUE, eC |-> TRUE, eT |-> TRUE, sB |-> "1", sC |-> "1", sT |-> "1"]

\* The answers of the commands of detectConflictFiles (lines 316, 333, 334,
\* 344) and of the hasRealConflict calls it makes.
FallbackGit(a) ==
  [m1 |-> a.threeDot, m2c |-> a.currentModified, m2t |-> a.targetModified,
   m2alt |-> a.alternativeTarget,
   file |-> [f \in Paths |-> fallbackFile(f \in a.diverged)],
   mt |-> << >>, dirs |-> {}]

InitFallback ==
  /\ pc = "input"
  /\ answers \in [threeDot : FallbackOutputs, currentModified : FallbackOutputs,
                  targetModified : FallbackOutputs, alternativeTarget : FallbackOutputs,
                  diverged : SUBSET Paths]
  /\ changes = {}
  /\ IdleClassify
  /\ IdleResolve
  /\ IdleScan
  /\ IdleHost
  /\ IdleCommand
  /\ IdleLocate
  /\ IdleWatch
  /\ IdleProvider
  /\ IdleMonitor

\* checkConflictForDocument.ts:122.
DetectConflictFiles ==
  /\ pc = "input"
  /\ changes' = detectConflictFiles(FallbackGit(answers))
  /\ pc' = "filtered"
  /\ UNCHANGED <<answers, classifyVars, resolveVars, scanVars, hostVars, commandVars,
                 locateVars, watchVars, providerVars, monitorVars>>

NextFallback == DetectConflictFiles

SpecFallback == InitFallback /\ [][NextFallback]_vars

(***************************************************************************)
(* Claims about the classifier                                             *)
(***************************************************************************)

\* C1: when exactly one side's content differs from the merge base
\* (base = current and base # target, or base = target and base # current),
\* hasRealConflict never reports a content conflict; with the path present
\* at all three commits the verdict is NoConflict.
OneSideChanged(a) ==
  \/ baseContent(a) = currentContent(a) /\ baseContent(a) # targetContent(a)
  \/ baseContent(a) = targetContent(a) /\ baseContent(a) # currentContent(a)

C1_OneSidedNeverContentConflict ==
  (pc = "done" /\ OneSideChanged(cand)) =>
     /\ verdict.kind # "ContentConflict"
     /\ (cand.eB /\ cand.eC /\ cand.eT) => verdict.kind = "NoConflict"

C1_Witness ==
  /\ pc = "done"
  /\ cand.eB /\ cand.eC /\ cand.eT
  /\ cand.sB = "1" /\ cand.sC = "2" /\ cand.sT = "1"
  /\ hasConflictMarkers(cand.mt)
  /\ verdict.kind = "NoConflict"

\* C2: when the path is in the same state at current and at target (present
\* at both with identical text, or absent at both: a convergent edit),
\* hasRealConflict returns NoConflict, whatever the base holds and whatever
\* the merge-tree probe would print.
Convergent(a) == a.eC = a.eT /\ currentContent(a) = targetContent(a)

C2_ConvergentIsNoConflict ==
  (pc = "done" /\ Convergent(cand)) => verdict.kind = "NoConflict"

C2_Witness ==
  /\ pc = "done"
  /\ cand.eB /\ cand.eC /\ cand.eT
  /\ cand.sB = "1" /\ cand.sC = "2" /\ cand.sT = "2"
  /\ hasConflictMarkers(cand.mt)
  /\ verdict.kind = "NoConflict"

\* C3: fail-safe verdict.  When base, current and target texts are pairwise
\* different, hasRealConflict runs the merge-tree probe and returns
\* ContentConflict whether the probe printed markers, printed no marker,
\* printed nothing or failed; it never returns NoConflict there.
PairwiseDifferent(a) ==
  /\ baseContent(a) # currentContent(a)
  /\ baseContent(a) # targetContent(a)
  /\ currentContent(a) # targetContent(a)

C5_CreateDeleteBeforeContent ==
  (pc = "done" /\ ~cand.eB /\ cand.eC # cand.eT) =>
     /\ verdict.kind = "CreateDeleteConflict"
     /\ verdict.shown = {}
     /\ ~verdict.probed

C5_Witness ==
  /\ pc = "done"
  /\ ~cand.eB /\ cand.eC /\ ~cand.eT
  /\ verdict.kind = "CreateDeleteConflict"
  /\ verdict.shown = {}

(***************************************************************************)
(* Claims about one scan                                                   *)
(***************************************************************************)

\* The registry the caller of the last scan keeps.
RegistryOf(by) == IF by = "watcher" THEN watcherSet ELSE conflictedFilesSet

\* The last scan handed the document's path to hasRealConflict, which ran
\* the merge-tree probe, and the probe's output holds a conflict marker.
ProbeHadMarkers ==
  /\ pc = "done"
  /\ last.r.outcome \in {"notconflict", "confirmed"}
  /\ LET g == Git(world, last.r.resolved)
     IN /\ world.doc.path \in comparedFiles(g)
        /\ hasRealConflict(CandOf(g, world.doc.path)).probed
        /\ Truthy(g.mt) /\ hasConflictMarkers(g.mt)

\* C4: when the merge-tree probe run for the scanned document's path
\* contains conflict markers, the path is in the list detectConflictFiles
\* returns and, after the scan, in the registry.
C4_MarkersMeanRegistered ==
  ProbeHadMarkers =>
     /\ world.doc.path \in last.r.conflictFiles
     /\ world.doc.path \in RegistryOf(last.by)

\* The last scan resolved its target, and HEAD and the target are the same
\* commit.
SameShaScan ==
  /\ pc = "done"
  /\ last.r.resolved # NullRef
  /\ sameSha(world, last.r.resolved)

\* The last scan obtained the merge base, so it went on to the detection.
Detected(r) == r.outcome \in {"nopotential", "notpotential", "notconflict", "confirmed"}

C9_UnresolvedLeavesRegistry ==
  (pc = "done" /\ last.r.outcome = "refnotfound") =>
     /\ last.r.error
     /\ conflictedFilesSet = last.before.types
     /\ watcherSet = last.before.watcher

(***************************************************************************)
(* Claims about the extension host                                         *)
(***************************************************************************)

\* C7: between scans, a.ts is in the registry of types/types.ts if and only
\* if the most recent scan of it that reached the detection confirmed a
\* conflict and was run against the target branch configured now.
C7_RegistryInvariant ==
  running = Idle =>
     ("a.ts" \in conflictedFilesSet <=>
        (completed.done /\ completed.conflict /\ completed.target = targetBranch))

\* C8: triggers fired while a handleDocumentChange scan of the document is
\* running are coalesced: of all the triggers fired during one scan, with
\* the target unchanged, at most one starts a scan afterwards.
C8_OneTrailingRerun == rerunCount <= 1

(***************************************************************************)
(* Claims about the resolver                                               *)
(***************************************************************************)

\* The name is listed by a branch listing that succeeded: an existing,
\* fully-qualified ref.
ListedRef(n, r) ==
  \/ TruthyListing(r.locals) /\ listIncludes(r.locals, n)
  \/ TruthyListing(r.remotes) /\ listIncludes(r.remotes, n)

\* C10: normalizeBranchName is idempotent: a name that is already an
\* existing fully-qualified ref (origin/main when the remote branch
\* origin/main is listed, or the result of a previous successful
\* resolution) resolves to itself, not to null and not to another name.
C10_ResolverIdempotent ==
  /\ (pc = "done" /\ ListedRef(rin.name, rin)) => rout = rin.name
  /\ pc = "again" => rout2 = rout

\* Step (1), (2) or (3) of the resolution succeeds for name n: n is an
\* existing ref, origin/n is, or an enumerated branch is named n or ends
\* with /n.
SomeStepSucceeds(n, r) ==
  \/ ListedRef(n, r)
  \/ ListedRef(originBranch(n), r)
  \/ \E i \in 1..Len(r.remotes) : TruthyListing(r.remotes) /\ endsWithSlash(r.remotes[i], n)

\* C18: the resolver tries the name itself as a ref, then origin/<name>,
\* then the enumerated branches that are named <name> or end with /<name>;
\* it returns null if and only if none of these succeeds.
C18_NullIffNoStepSucceeds ==
  pc = "done" => (rout = NullRef <=> ~SomeStepSucceeds(rin.name, rin))

(***************************************************************************)
(* Claims about the change sets, failed reads and the command runner       *)
(***************************************************************************)

\* Every approach's diff failed for both sides, the other commands
\* answered, and the call was between two branches.
AllAttemptsFailed(a) ==
  /\ a.cur # stripOrigin(a.tgt)
  /\ a.refs = "ok"
  /\ \A i \in Approaches : a.failed[i] = Sides

\* The same call in a repository where every diff succeeds and prints
\* nothing.
NoChangesOf(a) ==
  [a EXCEPT !.curOut = << >>, !.tgtOut = << >>, !.failed = [i \in Approaches |-> {}]]

\* C12: the change-set computation distinguishes "could not determine"
\* from "no changes": when all three diff attempts fail, what it hands to
\* its caller differs from what it hands over when the diff succeeds with
\* no output.
C12_FailureDistinctFromNoChanges ==
  (pc = "diffed" /\ AllAttemptsFailed(answers))
    => changes # potentialConflicts(NoChangesOf(answers))

\* `git show` was run on the current and on the target blob and answered
\* null both times.
BothReadsFailed(a) == a.eC /\ a.eT /\ a.sC = NULL /\ a.sT = NULL

\* C13: no git failure is silently turned into a conflict-free verdict:
\* when the reads of the current and of the target content both fail, the
\* classifier does not return NoConflict (two failed reads are not "same
\* content").
C13_FailedReadsNotConflictFree ==
  (pc = "done" /\ BothReadsFailed(cand)) => verdict.kind # "NoConflict"

\* res is out without its leading and trailing white space.
IsTrimOf(out, res) ==
  \E i \in 1..(Len(out) + 1) : \E j \in 0..Len(out) :
     /\ res = SubSeq(out, i, j)
     /\ \A k \in 1..(i - 1) : isWhiteSpace(out[k])
     /\ \A k \in (j + 1)..Len(out) : isWhiteSpace(out[k])
     /\ res # << >> => ~isWhiteSpace(res[1]) /\ ~isWhiteSpace(res[Len(res)])

\* The directory exists, holds .git and the subprocess exited 0.
Succeeds(inv) == inv.cwdExists /\ inv.hasGit /\ inv.outcome = "exit 0"

\* C14: executeGitCommand returns the trimmed stdout when the subprocess
\* exits 0, returns null when it exits nonzero, times out, or the working
\* directory is missing or has no .git, and never throws.
C14_ExitContract ==
  pc = "ran" =>
     /\ ~returned.threw
     /\ Succeeds(invocation) => IsTrimOf(invocation.stdout, returned.value)
     /\ ~Succeeds(invocation) => returned.value = NULLOUT

\* A subprocess that exited 0 with white space at both ends of its output.
C14_Witness ==
  /\ pc = "ran"
  /\ Succeeds(invocation)
  /\ invocation.stdout = <<" ", "x", "\n">>
  /\ returned.value = <<"x">>

(***************************************************************************)
(* Claims about disabling, reconfiguration and the tree view               *)
(***************************************************************************)

\* C15: after the extension is disabled (disable command, or the enabled
\* setting changed to false), the conflict registry is empty, also for
\* documents that have no visible editor.
C15_DisabledMeansEmptyRegistry ==
  ~isExtensionEnabled => conflictedFilesSet = {}

\* C16: when the target branch is reconfigured while a scan is in flight,
\* the results computed against the old target are discarded: the scan's
\* return changes neither the registry nor the list of the tree view.
C16_StaleResultsDiscarded ==
  [][(ScanReturns /\ running.target # configTarget)
       => (conflictedFilesSet' = conflictedFilesSet /\ providerFiles' = providerFiles)]_vars

\* C17: when handleDocumentChange or refreshAllConflicts completes, the
\* list handed to ConflictFilesProvider.updateConflictedFiles contains
\* every path the scan has registered as conflicted.
C17_TreeViewListsRegistered ==
  [][ScanReturns => conflictedFilesSet' \subseteq providerFiles']_vars

\* A call between two branches in which every git command answered.
AllAnswered(a) ==
  /\ a.cur # stripOrigin(a.tgt)
  /\ a.refs = "ok"
  /\ \A i \in Approaches : a.failed[i] = {}

\* C19: the candidate set is the exact, case-sensitive intersection of the
\* two change sets: a path is returned if and only if both diffs list it
\* and it is not a directory on disk; no path changed on both sides is
\* dropped because of its name.
C19_ExactIntersection ==
  (pc = "diffed" /\ AllAnswered(answers))
    => changes = (Lines(answers.curOut) \cap Lines(answers.tgtOut)) \ answers.dirs

\* C20: every candidate list detectPotentialConflicts returns, the one of
\* the local-branch-versus-its-own-remote case included, excludes the
\* paths that are directories on disk.
C20_NoDirectoryCandidates ==
  pc = "diffed" => changes \cap answers.dirs = {}

(***************************************************************************)
(* Claims about the retry ladder and stale candidates                      *)
(***************************************************************************)

\* The approaches of the call on a, as detectPotentialConflicts ran them.
LadderOf(a) == ladder(AnswersGit(a))

\* A call between two branches whose cat-file probes and rev-parse calls
\* answered.
ReachesLadder(a) == a.cur # stripOrigin(a.tgt) /\ a.refs = "ok"

\* C21: approach (b) runs only if approach (a) errored and (c) only if (b)
\* errored: a diff that succeeds, even with empty output, ends the ladder,
\* and a side that one approach answered is not left with the failure of
\* a later approach.
C21_LadderStopsAtSuccess ==
  (pc = "diffed" /\ ReachesLadder(answers)) =>
     /\ answers.failed[1] = {} => LadderOf(answers).attempts = 1
     /\ "cur" \notin answers.failed[1] => LadderOf(answers).cur # NULLOUT

\* C22: a candidate that is absent at both current and target is
\* classified NoConflict whether or not it exists at base, and neither a
\* content read nor the merge-tree probe is performed for it.
C22_StaleCandidateSkipped ==
  (pc = "done" /\ ~cand.eC /\ ~cand.eT) =>
     verdict = Verdict("NoConflict", {}, FALSE)

\* A candidate that exists at base only has been classified.
C22_Witness ==
  /\ pc = "done"
  /\ cand.eB /\ ~cand.eC /\ ~cand.eT
  /\ verdict.kind = "NoConflict"

(***************************************************************************)
(* Claims about the frame of a scan                                        *)
(***************************************************************************)

\* C23: a scan writes the registry at most once and only for the scanned
\* document's own path: the membership of every other path is what it was
\* before the call, in the scanner's registry and in the watcher's.
C23_OnlyOwnPathWritten ==
  pc = "done" =>
     /\ conflictedFilesSet \ {world.doc.path} = last.before.types \ {world.doc.path}
     /\ watcherSet \ {world.doc.path} = last.before.watcher \ {world.doc.path}
     /\ ~(last.r.add /\ last.r.delete)

\* The scanner deleted the document's path and another path stayed
\* registered.
C23_Witness ==
  /\ pc = "done"
  /\ last.by = "scanner"
  /\ last.r.delete /\ last.r.clear
  /\ last.before.types = {world.doc.path, OtherPath}
  /\ conflictedFilesSet = {OtherPath}
  /\ watcherSet = {OtherPath}

\* C24: when the workspace root has no .git, the scan short-circuits to an
\* empty result: no error is raised, nothing is reported, and the scanned
\* document is not a member of the caller's registry afterwards.
C24_NoRepositoryEmptyResult ==
  (pc = "done" /\ last.r.outcome = "nogit") =>
     /\ ~last.r.error
     /\ last.r.potential = {} /\ last.r.conflictFiles = {}
     /\ world.doc.path \notin RegistryOf(last.by)

(***************************************************************************)
(* Claims about the line locator                                           *)
(***************************************************************************)

\* The three contents were read and none is empty.
ContentsRead(t) ==
  TruthyContent(t.base) /\ TruthyContent(t.current) /\ TruthyContent(t.target)

\* The lines of a content; one that could not be read has none.
LinesOf(c) == IF c = NULLOUT THEN << >> ELSE c

SplitTexts(t) ==
  Texts(LinesOf(t.base), LinesOf(t.current), LinesOf(t.target), t.doc)

\* Indexes the walk visits, 0-based.
Indexes(t) == 0..(Max(Len(t.current), Max(Len(t.target), Len(t.base))) - 1)

\* The three lines at index i, a missing line counting as empty, are
\* pairwise distinct.
PairwiseDistinct(t, i) ==
  Cardinality({lineOr(t.base, i), lineOr(t.current, i), lineOr(t.target, i)}) = 3

\* Document line d, trimmed, equals the trimmed current or target line at i.
TrimmedEqual(t, i, d) ==
  trimLine(t.doc[d + 1]) \in {trimLine(lineOr(t.current, i)), trimLine(lineOr(t.target, i))}

\* d is the first document line that matches index i.
FirstMatch(t, i, d) ==
  /\ d \in 0..(Len(t.doc) - 1)
  /\ TrimmedEqual(t, i, d)
  /\ \A e \in 0..(d - 1) : ~TrimmedEqual(t, i, e)

\* The document lines the divergence points of t yield.
ExpectedLines(t) ==
  {d \in 0..(Len(t.doc) - 1) : \E i \in Indexes(t) : PairwiseDistinct(t, i) /\ FirstMatch(t, i, d)}

\* C25, as the code has it: when the three contents were read and none is
\* empty, the recorded document lines are exactly the first matches of the
\* indexes whose base, current and target lines are pairwise distinct.
C25_DivergenceRule ==
  (pc = "located" /\ ContentsRead(texts)) =>
     {marks.lines[k] : k \in 1..Len(marks.lines)} = ExpectedLines(SplitTexts(texts))

\* A walk that recorded a document line for a divergence point at index 1
\* and none for index 0, where current and target agree.
C25_Witness ==
  /\ pc = "located"
  /\ texts.base = <<"a", "c">> /\ texts.current = <<"b", "a">> /\ texts.target = <<"b", "b">>
  /\ texts.doc = <<"", " b">>
  /\ marks.lines = <<1>>

\* C25 as stated: for any contents, the recorded document lines are
\* exactly the first matches of the pairwise-distinct indexes.
C25_DivergenceRuleAnyContents ==
  pc = "located" =>
     {marks.lines[k] : k \in 1..Len(marks.lines)} = ExpectedLines(SplitTexts(texts))

\* The document lines the locator has to mark: none when a content could
\* not be read or is empty.
MatchedLines(t) == IF ContentsRead(t) THEN ExpectedLines(t) ELSE {}

DecoratedRanges == {marks.decorations[k] : k \in 1..Len(marks.decorations)}

\* C26: for a confirmed conflict, if no divergence point yields a document
\* match (also when one of the three contents is unavailable or empty),
\* exactly one range from line 0 to the last line of the document is
\* marked; otherwise exactly the matched lines are marked.
C26_FallbackWholeDocument ==
  pc = "located" =>
     IF MatchedLines(texts) = {}
     THEN marks.decorations = <<Range(0, Len(texts.doc) - 1)>>
     ELSE /\ DecoratedRanges = {Range(d, d) : d \in MatchedLines(texts)}
          /\ Len(marks.decorations) = Cardinality(MatchedLines(texts))

\* The target content could not be read and the two lines of the document
\* are marked as one range.
C26_Witness ==
  /\ pc = "located"
  /\ texts.target = NULLOUT
  /\ TruthyContent(texts.base) /\ TruthyContent(texts.current)
  /\ Len(texts.doc) = 2
  /\ marks.decorations = <<Range(0, 1)>>

\* C27: every decorated line is a line of the live document
\* (0 <= line <= lineCount - 1), and the list analyzeFileConflicts returns
\* holds no line number twice.
C27_ValidDistinctLines ==
  pc = "located" =>
     /\ \A r \in DecoratedRanges :
          /\ r.startLine \in 0..(Len(texts.doc) - 1)
          /\ r.endLine \in 0..(Len(texts.doc) - 1)
     /\ \A j, k \in 1..Len(marks.lines) : marks.lines[j] = marks.lines[k] => j = k

\* Two divergence points matched the same document line, which was
\* returned once.
C27_Witness ==
  /\ pc = "located"
  /\ texts.base = <<"c", "c">> /\ texts.current = <<"a", "a">> /\ texts.target = <<"b", "b">>
  /\ texts.doc = <<"", "a">>
  /\ marks.lines = <<1>>
  /\ marks.decorations = <<Range(1, 1)>>

(***************************************************************************)
(* Claims about quiescence, reconfiguration and the disabled extension     *)
(***************************************************************************)

\* C28: after one external trigger (document open or change, manual refresh,
\* branch change) and no further external event, the extension host
\* eventually reaches, and stays in, a state where no scan runs and no
\* handler is pending; in particular the refreshTree command a confirming
\* scan issues does not keep scans coming.
C28_EventuallyQuiescent == <>[](running = Idle /\ queue = << >>)

\* C29: a scan that runs was started with the target branch the extension is
\* configured with at that time, whoever started it: a listener, a command
\* or the file watcher of the workspace.
C29_ScansUseConfiguredTarget == running # Idle => running.target = targetBranch

\* C30: in a step that begins and ends with the extension disabled, no scan
\* starts and no path is added to a conflict registry, whatever the event
\* the step handles: document open, document change, manual refresh or a
\* change or create event of the workspace file watcher.
C30_DisabledStartsNothing ==
  [][(~isExtensionEnabled /\ ~isExtensionEnabled') =>
        /\ running' = Idle \/ running' = running
        /\ conflictedFilesSet' \subseteq conflictedFilesSet
        /\ watcherSet' \subseteq watcherSet
        /\ detectorSet' \subseteq detectorSet]_vars

(***************************************************************************)
(* Claims about ignored paths, deleted files, the tree view's warning, the *)
(* second classifier, connectivity monitoring and the fallback method      *)
(***************************************************************************)

SystemDirectories == {".vscode", ".git", "node_modules"}

UnderSystemDirectory(p) == Len(segments(p)) > 1 /\ segments(p)[1] \in SystemDirectories

\* The outcomes of a scan that returned before its first git command
\* (checkConflictForDocument.ts:62).
BeforeGit == {"skipped", "nogit", "ignored"}

\* C31: a scan of a document whose workspace-relative path starts with
\* .vscode/, .git/ or node_modules/ runs no git command and does not add
\* the path, and the path is in neither registry before or after the scan.
C31_SystemPathsNeverRegistered ==
  UnderSystemDirectory(world.doc.path) =>
     /\ world.doc.path \notin conflictedFilesSet \cup watcherSet
     /\ pc \in {"done", "again"} => last.r.outcome \in BeforeGit /\ ~last.r.add
     /\ pc = "again" => again.r.outcome \in BeforeGit /\ ~again.r.add

C31_Witness ==
  /\ pc = "done"
  /\ world.doc.path = "node_modules/x.js"
  /\ world.doc.visible
  /\ last.r.outcome = "ignored"
  /\ OtherPath \in conflictedFilesSet

\* C32: once the watcher has reported the deletion of a.ts and the handlers
\* pending for a.ts have finished, a.ts is not in the watcher's registry, as
\* long as the file has not existed at any time since the report.
C32_DeletedFileNotRegistered ==
  (pc = "watch" /\ deleteReported.reported /\ awaiting = 0 /\ ~deleteReported.existedSince) =>
     "a.ts" \notin watcherSet

\* A change handler was awaiting openTextDocument when the deletion was
\* reported, and has finished since.
C32_Witness ==
  /\ pc = "watch"
  /\ deleteReported.reported
  /\ deleteReported.pending > 0
  /\ ~deleteReported.existedSince
  /\ awaiting = 0
  /\ queue = << >>
  /\ world.tri = <<"1", "2", "3">>
  /\ "a.ts" \in visibleEditors
  /\ "a.ts" \notin watcherSet

\* C32 as stated, whether or not the file exists again: once the watcher has
\* reported the deletion of a.ts and the handlers that were pending have
\* finished, a.ts is not in the watcher's registry.
C32_DeletedFileNotRegisteredEvenIfCreatedAgain ==
  (pc = "watch" /\ deleteReported.reported /\ awaiting = 0) => "a.ts" \notin watcherSet

\* C33: over any sequence of calls of updateConflictedFiles, a warning is
\* shown only by a call with a non-empty list that follows an empty stored
\* list, between two warnings there is a call with an empty list, and the
\* stored list is the argument of the most recent call.
C33_WarningOnlyOnEmptyToNonEmpty ==
  pc = "provider" =>
     /\ conflictedFiles = IF updates = << >> THEN << >> ELSE updates[Len(updates)].files
     /\ \A i \in 1..Len(updates) :
           updates[i].warned =>
              /\ updates[i].files # << >>
              /\ i = 1 \/ updates[i - 1].files = << >>
     /\ \A i, j \in 1..Len(updates) :
           (i < j /\ updates[i].warned /\ updates[j].warned) =>
              \E k \in (i + 1)..(j - 1) : updates[k].files = << >>

C33_Witness ==
  /\ pc = "provider"
  /\ Len(updates) = 3
  /\ updates[1].warned
  /\ updates[2].files = << >>
  /\ updates[3].warned
  /\ conflictedFiles = <<"b.ts", "a.ts">>

\* C34: for every combination of git answers about a candidate,
\* hasRealConflicts of conflictDetector.ts returns true exactly when
\* hasRealConflict of detectConflicts.ts does.
C34_ClassifiersAgree == pc = "done" => (detectorVerdict <=> isConflict(verdict))

\* C35: after any sequence of startConnectivityMonitoring and
\* stopConnectivityMonitoring calls at most one interval is active, the
\* active interval is the one connectivityCheckInterval holds, and none is
\* active when it holds null, as it does after a stop.
C35_AtMostOneInterval ==
  pc = "monitor" =>
     /\ Cardinality(activeIntervals) <= 1
     /\ activeIntervals = IF connectivityCheckInterval = 0 THEN {}
                          ELSE {connectivityCheckInterval}

\* A second start replaced the interval of the first.
C35_Witness ==
  /\ pc = "monitor"
  /\ timersCreated = 2
  /\ connectivityCheckInterval = 2
  /\ activeIntervals = {2}
  /\ checksInFlight = 2

\* After a stop that followed two starts no interval is active.
C35_WitnessStopped ==
  /\ pc = "monitor"
  /\ timersCreated = 2
  /\ connectivityCheckInterval = 0
  /\ activeIntervals = {}

\* C36: when detectConflictFiles is in its fallback method (the three-dot
\* diff failed, the current branch's two-dot diff listed paths), the
\* target's two-dot diff failed and the alternative two-argument diff
\* answered, the result is made of the paths both the current diff and the
\* alternative diff list (those hasRealConflict confirms).
C36_AlternativeTargetUsed ==
  (/\ pc = "filtered"
   /\ answers.threeDot = NULLOUT
   /\ Truthy(answers.currentModified)
   /\ answers.targetModified = NULLOUT
   /\ answers.alternativeTarget # NULLOUT) =>
     changes = {f \in nonBlank(answers.currentModified) \cap nonBlank(answers.alternativeTarget) :
                  f \in answers.diverged}

====
